---- MODULE Spec2Model ----
(***************************************************************************)
(* Test-case generation engine of mcp-qa (tools/test_case_generator):      *)
(* the synthetic value generator, the Equivalence Partitioning, Boundary   *)
(* Value and Decision Table generators, and the state they keep (one       *)
(* case counter per generator instance).                                   *)
(*                                                                         *)
(* Representation.                                                         *)
(*  - A Python dict key that may be missing, null or a number is a record  *)
(*    [st, v] with st in {"absent", "none", "val"}.                        *)
(*  - A key holding a string (type, format, in) is that string, or         *)
(*    "Absent" / "None".                                                   *)
(*  - A parameter schema and a body property are both a record with the    *)
(*    constraint keys the code looks up (Dict below).                      *)
(*  - A synthesized value is a record [k, n, s]: k its Python kind, n its  *)
(*    number / length / item count, s its literal text. The characters of  *)
(*    a random string are not modelled, only its length.                   *)
(*  - A number of type "number" is counted in tenths, so that minimum+0.1  *)
(*    is an integer; values of type "integer" are plain integers.          *)
(*  - A dict of the test data is a function from names to values.          *)
(*  - A response status key and a case id are sequences of characters.     *)
(*  - Parameter names are unique per location, property names are unique.  *)
(***************************************************************************)
EXTENDS Integers, Sequences, FiniteSets, TLC

VARIABLES
    analysis,   \* the endpoint views read from the analysis file (the input)
    endpoint,   \* index in analysis of the endpoint of the last generate() call
    technique,  \* the generator that was called last
    counter,    \* _test_counter of each generator instance
    outcome,    \* "none", or how the last call ended: "returned" / "raised"
    cases,      \* the list the last call returned
    calls,      \* generate() calls so far
    created,    \* the number of TestCase objects each generator instance has built
    inflight,   \* generate() calls in progress at once on one instance: where each one is
    description, \* a parameter or property description handed to the value generator
    produced,   \* the values the value generator returned for it, in call order
    run,        \* the last generate_test_cases call of the tool: arguments and outcome
    suite,      \* test_cases of the suite under construction or last built
    summary     \* the summary the last operation on the suite returned, if it returned one

\* the state of the generators, and of the direct use of the value generator
generatorVars == <<analysis, endpoint, technique, counter, outcome, cases, calls, created, inflight>>
valueVars == <<description, produced>>
suiteVars == <<run, suite, summary>>

vars == <<generatorVars, valueVars, suiteVars>>

-----------------------------------------------------------------------------
(* Bounds of the model *)

\* declared bounds (minLength, maximum, ...) range over 0..MaxBound
MaxBound == 3
\* generate() calls in one behaviour
MaxCalls == 2

-----------------------------------------------------------------------------
(* Python values *)

KeyAbsent == [st |-> "absent", v |-> 0]
KeyNone == [st |-> "none", v |-> 0]
Key(n) == [st |-> "val", v |-> n]

\* d.get(key, default), the default being a number
Get(key, default) == IF key.st = "absent" THEN Key(default) ELSE key

\* d.get(key1, d.get(key2)) and d.get(key1, d.get(key2, default))
Get2(key1, key2) == IF key1.st = "absent" THEN key2 ELSE key1
Get3(key1, key2, default) == IF key1.st = "absent" THEN Get(key2, default) ELSE key1

\* d.get(key, d2.get(key2, default)) for string-valued keys
GetStr(key1, key2, default) ==
    IF key1 # "Absent" THEN key1 ELSE IF key2 # "Absent" THEN key2 ELSE default

Val(k, n, s) == [k |-> k, n |-> n, s |-> s]
RaisedVal == Val("raise", 0, "TypeError")
PyNone == Val("none", 0, "")

Max2(a, b) == IF a >= b THEN a ELSE b
Min2(a, b) == IF a <= b THEN a ELSE b

EmptyMap == [x \in {} |-> PyNone]
Put(map, k, x) == [y \in (DOMAIN map) \cup {k} |-> IF y = k THEN x ELSE map[y]]

Range(s) == {s[i] : i \in DOMAIN s}

-----------------------------------------------------------------------------
(* Schemas, parameters, properties *)

\* a parameter schema or a body property: the keys the generators look up
EmptyDict ==
    [name |-> "", type |-> "Absent", format |-> "Absent", example |-> KeyAbsent,
     required |-> FALSE,
     min_length |-> KeyAbsent, max_length |-> KeyAbsent,
     minLength |-> KeyAbsent, maxLength |-> KeyAbsent,
     minimum |-> KeyAbsent, maximum |-> KeyAbsent,
     minItems |-> KeyAbsent, maxItems |-> KeyAbsent,
     enum |-> <<>>]

\* a normalized parameter, as SwaggerAnalysisJsonReader._extract_parameters builds it
Param(name, loc, required, type, format, schema) ==
    [name |-> name, in |-> loc, required |-> required, type |-> type,
     format |-> format, example |-> KeyNone, schema |-> schema]

NoBody == [present |-> FALSE, required |-> FALSE, type |-> "Absent",
           example |-> KeyAbsent, properties |-> <<>>, requiredNames |-> {}]

\* request_body with its schema: schema.type, schema.example, schema.properties, schema.required
Body(required, type, properties, requiredNames) ==
    [present |-> TRUE, required |-> required, type |-> type,
     example |-> KeyNone, properties |-> properties, requiredNames |-> requiredNames]

-----------------------------------------------------------------------------
(* SwaggerEndpointData *)

get_required_headers(e) ==
    SelectSeq(e.parameters, LAMBDA p : p.in = "header" /\ p.required)

get_path_params(e) == SelectSeq(e.parameters, LAMBDA p : p.in = "path")

get_query_params(e) == SelectSeq(e.parameters, LAMBDA p : p.in = "query")

\* code.startswith(ch)
startswith(code, ch) == Len(code) > 0 /\ code[1] = ch

\* the keys of the dict comprehension, in the order of self.responses
get_success_responses(e) == SelectSeq(e.responses, LAMBDA code : startswith(code, "2"))

\* variant: client errors only
get_client_error_responses(e) ==
    SelectSeq(e.responses, LAMBDA code : startswith(code, "4"))

get_error_responses(e) ==
    SelectSeq(e.responses, LAMBDA code : startswith(code, "4") \/ startswith(code, "5"))

-----------------------------------------------------------------------------
(* int() and the :03d format *)

Digits == <<"0", "1", "2", "3", "4", "5", "6", "7", "8", "9">>

IsDigit(ch) == \E i \in DOMAIN Digits : Digits[i] = ch
DigitValue(ch) == (CHOOSE i \in DOMAIN Digits : Digits[i] = ch) - 1

RECURSIVE DecimalValue(_)
DecimalValue(s) ==
    IF s = <<>> THEN 0
    ELSE 10 * DecimalValue(SubSeq(s, 1, Len(s) - 1)) + DigitValue(s[Len(s)])

\* int(code): a ValueError unless code is a decimal literal (keys made of digits
\* and letters only: no sign, blank or underscore)
int(code) ==
    IF code # <<>> /\ \A i \in DOMAIN code : IsDigit(code[i])
    THEN [raised |-> FALSE, v |-> DecimalValue(code)]
    ELSE [raised |-> TRUE, v |-> 0]

RECURSIVE DecimalDigits(_)
DecimalDigits(n) ==
    IF n < 10 THEN <<Digits[n + 1]>>
    ELSE DecimalDigits(n \div 10) \o <<Digits[(n % 10) + 1]>>

\* f"{n:03d}"
Format03d(n) ==
    LET d == DecimalDigits(n)
    IN  IF Len(d) >= 3 THEN d
        ELSE IF Len(d) = 2 THEN <<"0">> \o d
        ELSE <<"0", "0">> \o d

-----------------------------------------------------------------------------
(* SyntheticDataGenerator *)

DefaultMinLength == 1
DefaultMaxLength == 50
DefaultMinimum == 1
DefaultMaximum == 1000
DefaultMinItems == 1
DefaultMaxItems == 5
FallbackLength == 10
PropertyFallbackLength == 8
InvalidSuffixLength == 5

StringFormats == {"uuid", "email", "date", "date-time", "uri"}

\* the string is random: only its length is kept
random_string(length) == Val("str", IF length <= 0 THEN 0 ELSE length, "random")

\* random.choice(enum_values), rnd being the draw
random_choice(enum_values, rnd) == enum_values[(rnd % Len(enum_values)) + 1]

generate_valid_string(schema, format_type, rnd) ==
    IF format_type \in StringFormats THEN Val("fmt", 0, format_type)
    ELSE LET min_length == Get3(schema.min_length, schema.minLength, DefaultMinLength)
             max_length == Get3(schema.max_length, schema.maxLength, DefaultMaxLength)
         IN  IF min_length.st # "val" \/ max_length.st # "val" THEN RaisedVal
             ELSE LET target_length ==
                          Max2(min_length.v,
                               Min2((min_length.v + max_length.v) \div 2, max_length.v))
                  IN  IF schema.enum # <<>> THEN random_choice(schema.enum, rnd)
                      ELSE random_string(target_length)

generate_valid_integer(schema) ==
    LET minimum == Get(schema.minimum, DefaultMinimum)
        maximum == Get(schema.maximum, DefaultMaximum)
    IN  IF minimum.st # "val" \/ maximum.st # "val" THEN RaisedVal
        ELSE Val("int", (minimum.v + maximum.v) \div 2, "")

\* (minimum + maximum) / 2 as a float, in tenths (defaults 0.0 and 1000.0)
generate_valid_number(schema) ==
    LET minimum == Get(schema.minimum, 0)
        maximum == Get(schema.maximum, DefaultMaximum)
    IN  IF minimum.st # "val" \/ maximum.st # "val" THEN RaisedVal
        ELSE Val("num", (minimum.v + maximum.v) * 5, "")

\* a list of count synthesized items; only the count is kept
generate_valid_array(schema) ==
    LET min_items == Get(schema.minItems, DefaultMinItems)
        max_items == Get(schema.maxItems, DefaultMaxItems)
    IN  IF min_items.st # "val" \/ max_items.st # "val" THEN RaisedVal
        ELSE Val("arr", Max2(0, (min_items.v + max_items.v) \div 2), "")

generate_value_from_property(prop, rnd) ==
    LET prop_type == IF prop.type = "Absent" THEN "string" ELSE prop.type
    IN  IF prop.example.st = "val" THEN Val("example", prop.example.v, "")
        ELSE CASE prop_type = "string" -> generate_valid_string(prop, prop.format, rnd)
               [] prop_type = "integer" -> generate_valid_integer(prop)
               [] prop_type = "number" -> generate_valid_number(prop)
               [] prop_type = "boolean" -> Val("bool", 1, "")
               [] prop_type = "array" -> generate_valid_array(prop)
               [] OTHER -> random_string(PropertyFallbackLength)

\* variant: only the required list of the schema is consulted
is_listed_property(body, prop) == prop.name \in body.requiredNames

\* prop_name in required or prop.get('required', False)
IsRequiredProperty(body, prop) == prop.name \in body.requiredNames \/ prop.required

RECURSIVE ObjectOf(_, _, _, _, _)
\* the loop shared by _generate_valid_object and _create_body_with_property_value:
\* target = "" and no override for the former
ObjectOf(body, props, target, target_value, rnd) ==
    IF props = <<>> THEN EmptyMap
    ELSE LET prop == props[Len(props)]
             rest == ObjectOf(body, SubSeq(props, 1, Len(props) - 1), target, target_value, rnd)
         IN  IF ~IsRequiredProperty(body, prop) THEN rest
             ELSE IF target # "" /\ prop.name = target THEN Put(rest, prop.name, target_value)
             ELSE Put(rest, prop.name, generate_value_from_property(prop, rnd))

generate_valid_object(body, rnd) == ObjectOf(body, body.properties, "", PyNone, rnd)

generate_valid_value(param, rnd) ==
    LET schema == param.schema
        param_type == GetStr(schema.type, param.type, "string")
        param_format == GetStr(schema.format, param.format, "None")
        example == Get2(schema.example, param.example)
    IN  IF example.st = "val" THEN Val("example", example.v, "")
        ELSE CASE param_type = "string" -> generate_valid_string(schema, param_format, rnd)
               [] param_type = "integer" -> generate_valid_integer(schema)
               [] param_type = "number" -> generate_valid_number(schema)
               [] param_type = "boolean" -> Val("bool", rnd % 2, "")
               [] param_type = "array" -> generate_valid_array(schema)
               [] param_type = "object" -> Val("obj", 0, "")
               [] OTHER -> random_string(FallbackLength)

BodyNone == [kind |-> "none", d |-> EmptyMap, val |-> PyNone]
BodyDict(d) == [kind |-> "dict", d |-> d, val |-> PyNone]
BodyValue(x) == [kind |-> "value", d |-> EmptyMap, val |-> x]

\* generate_valid_value({'schema': schema}) for the schema of the request body
generate_valid_body(body, rnd) ==
    LET param_type == IF body.type = "Absent" THEN "string" ELSE body.type
    IN  IF body.example.st = "val" THEN BodyValue(Val("example", body.example.v, ""))
        ELSE CASE param_type = "object" -> BodyDict(generate_valid_object(body, rnd))
               [] param_type = "string" ->
                      BodyValue(generate_valid_string(EmptyDict, "None", rnd))
               [] param_type = "integer" -> BodyValue(generate_valid_integer(EmptyDict))
               [] param_type = "number" -> BodyValue(generate_valid_number(EmptyDict))
               [] param_type = "boolean" -> BodyValue(Val("bool", rnd % 2, ""))
               [] param_type = "array" -> BodyValue(generate_valid_array(EmptyDict))
               [] OTHER -> BodyValue(random_string(FallbackLength))

generate_invalid_format(param_type, format_type) ==
    CASE format_type = "uuid" -> Val("lit", 0, "invalid-uuid-format")
      [] format_type = "email" -> Val("lit", 0, "not-an-email")
      [] format_type = "date" -> Val("lit", 0, "not-a-date")
      [] format_type = "date-time" -> Val("lit", 0, "not-a-datetime")
      [] format_type = "uri" -> Val("lit", 0, "not a uri")
      [] format_type \notin StringFormats /\ param_type = "integer" ->
             Val("lit", 0, "not_an_integer")
      [] format_type \notin StringFormats /\ param_type = "number" ->
             Val("lit", 0, "not_a_number")
      [] OTHER -> Val("lit", InvalidSuffixLength, "INVALID_FORMAT_")

generate_wrong_type(expected_type) ==
    CASE expected_type = "string" -> Val("int", 12345, "")
      [] expected_type \in {"integer", "number"} -> Val("lit", 0, "this_is_not_a_number")
      [] expected_type = "boolean" -> Val("lit", 0, "not_a_boolean")
      [] expected_type = "array" -> Val("lit", 0, "not_an_array")
      [] expected_type = "object" -> Val("lit", 0, "not_an_object")
      [] OTHER -> PyNone

generate_invalid_value(param, violation_type) ==
    LET schema == param.schema
        param_type == GetStr(schema.type, param.type, "string")
        schema_format == IF schema.format = "Absent" THEN "None" ELSE schema.format
    IN  CASE violation_type = "null" -> PyNone
          [] violation_type = "empty" /\ param_type = "string" -> Val("str", 0, "")
          [] violation_type = "empty" /\ param_type = "array" -> Val("arr", 0, "")
          [] violation_type = "empty" /\ param_type = "object" -> Val("obj", 0, "")
          [] violation_type = "invalid_format" ->
                 generate_invalid_format(param_type, schema_format)
          [] violation_type = "wrong_type" -> generate_wrong_type(param_type)
          [] OTHER -> Val("lit", InvalidSuffixLength, "INVALID_")

generate_string_boundaries(schema) ==
    LET min_length == Get2(schema.min_length, schema.minLength)
        max_length == Get2(schema.max_length, schema.maxLength)
    IN  (IF min_length.st = "val"
         THEN (IF min_length.v > 0 THEN <<random_string(min_length.v - 1)>> ELSE <<>>)
              \o <<random_string(min_length.v), random_string(min_length.v + 1)>>
         ELSE <<>>)
        \o
        (IF max_length.st = "val"
         THEN (IF max_length.v > 1 THEN <<random_string(max_length.v - 1)>> ELSE <<>>)
              \o <<random_string(max_length.v), random_string(max_length.v + 1)>>
         ELSE <<>>)

\* integers as they are; for any other type the floats minimum + 0.1 and
\* maximum - 0.1 occur, and the values are kept in tenths
generate_numeric_boundaries(schema) ==
    LET minimum == schema.minimum
        maximum == schema.maximum
        param_type == IF schema.type = "Absent" THEN "integer" ELSE schema.type
    IN  (IF minimum.st = "val"
         THEN IF param_type = "integer"
              THEN <<Val("int", minimum.v - 1, ""), Val("int", minimum.v, ""),
                     Val("int", minimum.v + 1, "")>>
              ELSE <<Val("num", 10 * minimum.v - 10, ""), Val("num", 10 * minimum.v, ""),
                     Val("num", 10 * minimum.v + 1, "")>>
         ELSE <<>>)
        \o
        (IF maximum.st = "val"
         THEN IF param_type = "integer"
              THEN <<Val("int", maximum.v - 1, ""), Val("int", maximum.v, ""),
                     Val("int", maximum.v + 1, "")>>
              ELSE <<Val("num", 10 * maximum.v - 1, ""), Val("num", 10 * maximum.v, ""),
                     Val("num", 10 * maximum.v + 10, "")>>
         ELSE <<>>)

\* lists of range(n) synthesized items: the item count is kept
generate_array_boundaries(schema) ==
    LET min_items == schema.minItems
        max_items == schema.maxItems
    IN  (IF min_items.st = "val"
         THEN (IF min_items.v > 0 THEN <<Val("arr", min_items.v - 1, "")>> ELSE <<>>)
              \o <<Val("arr", Max2(0, min_items.v), ""), Val("arr", Max2(0, min_items.v + 1), "")>>
         ELSE <<>>)
        \o
        (IF max_items.st = "val"
         THEN <<Val("arr", Max2(0, max_items.v - 1), ""), Val("arr", Max2(0, max_items.v), ""),
                Val("arr", Max2(0, max_items.v + 1), "")>>
         ELSE <<>>)

generate_boundary_values(param) ==
    LET schema == param.schema
        param_type == GetStr(schema.type, param.type, "string")
    IN  CASE param_type = "string" -> generate_string_boundaries(schema)
          [] param_type \in {"integer", "number"} -> generate_numeric_boundaries(schema)
          [] param_type = "array" -> generate_array_boundaries(schema)
          [] OTHER -> <<>>

-----------------------------------------------------------------------------
(* TestData, TestCase *)

TestData(headers, path_params, query_params, body) ==
    [headers |-> headers, path_params |-> path_params,
     query_params |-> query_params, body |-> body]

\* an exception raised while a value of the test data was synthesized
DataRaised(td) ==
    \/ \E n \in DOMAIN td.headers : td.headers[n].k = "raise"
    \/ \E n \in DOMAIN td.path_params : td.path_params[n].k = "raise"
    \/ \E n \in DOMAIN td.query_params : td.query_params[n].k = "raise"
    \/ td.body.kind = "value" /\ td.body.val.k = "raise"
    \/ td.body.kind = "dict" /\ \E n \in DOMAIN td.body.d : td.body.d[n].k = "raise"

\* the expected status of a case: int() of a response key, or the fallback
Code(n) == [raised |-> FALSE, v |-> n]

DefaultSuccessCode == 200
DefaultErrorCode == 400

\* _get_first_success_code / _get_first_error_code (the same in the three generators)
get_first_success_code(e) ==
    LET success_responses == get_success_responses(e)
    IN  IF success_responses # <<>> THEN int(success_responses[1])
        ELSE Code(DefaultSuccessCode)

get_first_error_code(e) ==
    LET error_responses == get_error_responses(e)
    IN  IF error_responses # <<>> THEN int(error_responses[1])
        ELSE Code(DefaultErrorCode)

\* A TestCase. name and description are kept as their parts: kind (which
\* _create/_generate method wrote them), subject (the parameter or property
\* named), value and boundary_type (the value and label printed), combination
\* (the row of the decision table). raised: the method raised instead of
\* returning; counted: it had incremented _test_counter before.
TestCase(raised, counted, kind, subject, value, boundary_type, combination, tech, test_type, priority, test_data, status_code) ==
    [raised |-> raised, counted |-> counted, id |-> <<>>, kind |-> kind,
     subject |-> subject, value |-> value, boundary_type |-> boundary_type,
     combination |-> combination, technique |-> tech, test_type |-> test_type,
     priority |-> priority, test_data |-> test_data, status_code |-> status_code]

-----------------------------------------------------------------------------
(* EquivalencePartitioningGenerator *)

NoParam == Param("", "", FALSE, "Absent", "Absent", EmptyDict)
\* exclude_param = None, invalid_param = None
NoExclude == [on |-> FALSE, name |-> "", location |-> ""]
NoInvalid == [on |-> FALSE, name |-> "", location |-> "", data |-> NoParam]

RECURSIVE ep_headers(_, _, _, _)
ep_headers(headers, exclude_param, invalid_param, rnd) ==
    IF headers = <<>> THEN EmptyMap
    ELSE LET header == headers[Len(headers)]
             rest == ep_headers(SubSeq(headers, 1, Len(headers) - 1),
                                exclude_param, invalid_param, rnd)
         IN  IF exclude_param.on /\ header.name = exclude_param.name
                /\ exclude_param.location = "header"
             THEN rest
             ELSE IF invalid_param.on /\ header.name = invalid_param.name
                     /\ invalid_param.location = "header"
             THEN Put(rest, header.name,
                      generate_invalid_value(invalid_param.data, "invalid_format"))
             ELSE Put(rest, header.name, generate_valid_value(header, rnd))

RECURSIVE ep_params(_, _, _, _)
\* the path loop and the query loop (the latter over the required ones)
ep_params(params, location, exclude_param, rnd) ==
    IF params = <<>> THEN EmptyMap
    ELSE LET param == params[Len(params)]
             rest == ep_params(SubSeq(params, 1, Len(params) - 1),
                               location, exclude_param, rnd)
         IN  IF exclude_param.on /\ param.name = exclude_param.name
                /\ exclude_param.location = location
             THEN rest
             ELSE Put(rest, param.name, generate_valid_value(param, rnd))

RequiredOnly(params) == SelectSeq(params, LAMBDA p : p.required)

populate_valid_test_data(e, exclude_param, invalid_param, rnd) ==
    TestData(
        ep_headers(get_required_headers(e), exclude_param, invalid_param, rnd),
        ep_params(get_path_params(e), "path", exclude_param, rnd),
        ep_params(RequiredOnly(get_query_params(e)), "query", exclude_param, rnd),
        IF e.request_body.present /\ e.request_body.required
        THEN generate_valid_body(e.request_body, rnd)
        ELSE BodyNone)

generate_all_valid_case(e, rnd) ==
    LET test_data == populate_valid_test_data(e, NoExclude, NoInvalid, rnd)
        success_code == get_first_success_code(e)
    IN  TestCase(DataRaised(test_data) \/ success_code.raised, TRUE,
                 "all_valid", "", PyNone, "", <<>>,
                 "equivalence_partitioning", "positive", "high",
                 test_data, success_code.v)

\* a missing-parameter case that leaves nothing out of the request
generate_missing_param_case_complete(e, param, param_location, rnd) ==
    LET test_data == populate_valid_test_data(e, NoExclude, NoInvalid, rnd)
        error_code == get_first_error_code(e)
    IN  TestCase(DataRaised(test_data) \/ error_code.raised, TRUE,
                 "missing_param", param.name, PyNone, "", <<>>,
                 "equivalence_partitioning", "negative", "high",
                 test_data, error_code.v)

generate_missing_param_case(e, param, param_location, rnd) ==
    LET test_data ==
            populate_valid_test_data(
                e, [on |-> TRUE, name |-> param.name, location |-> param_location],
                NoInvalid, rnd)
        error_code == get_first_error_code(e)
    IN  TestCase(DataRaised(test_data) \/ error_code.raised, TRUE,
                 "missing_param", param.name, PyNone, "", <<>>,
                 "equivalence_partitioning", "negative", "high",
                 test_data, error_code.v)

generate_invalid_format_case(e, param, param_location, rnd) ==
    LET test_data ==
            populate_valid_test_data(
                e, NoExclude,
                [on |-> TRUE, name |-> param.name, location |-> param_location,
                 data |-> param], rnd)
        error_code == get_first_error_code(e)
    IN  TestCase(DataRaised(test_data) \/ error_code.raised, TRUE,
                 "invalid_format", param.name, PyNone, "", <<>>,
                 "equivalence_partitioning", "negative", "medium",
                 test_data, error_code.v)

generate_empty_body_case(e, rnd) ==
    LET populated == populate_valid_test_data(e, NoExclude, NoInvalid, rnd)
        test_data == [populated EXCEPT !.body = BodyDict(EmptyMap)]
        error_code == get_first_error_code(e)
    IN  TestCase(DataRaised(populated) \/ error_code.raised, TRUE,
                 "empty_body", "", PyNone, "", <<>>,
                 "equivalence_partitioning", "negative", "high",
                 test_data, error_code.v)

\* variant: the format of the parameter's schema counts too
HasRecordOrSchemaFormat(header) ==
    \/ header.format \notin {"Absent", "None", ""}
    \/ header.schema.format \notin {"Absent", "None", ""}

\* header.get('format') is truthy
HasFormat(header) == header.format \notin {"Absent", "None", ""}

\* the cases of EquivalencePartitioningGenerator.generate, in order, ids not yet set
ep_generate(e, rnd) ==
    LET headers == get_required_headers(e)
        with_format == SelectSeq(headers, HasFormat)
    IN  <<generate_all_valid_case(e, rnd)>>
        \o [i \in 1..Len(headers) |->
               generate_missing_param_case(e, headers[i], "header", rnd)]
        \o [i \in 1..Len(with_format) |->
               generate_invalid_format_case(e, with_format[i], "header", rnd)]
        \o (IF e.request_body.present /\ e.request_body.required
            THEN <<generate_empty_body_case(e, rnd)>>
            ELSE <<>>)

-----------------------------------------------------------------------------
(* DecisionTableGenerator *)

MaxTableHeaders == 3

RECURSIVE Pow2(_)
Pow2(n) == IF n = 0 THEN 1 ELSE 2 * Pow2(n - 1)

\* list(product([True, False], repeat=n)): True first, the last position fastest
product(n) ==
    [r \in 1..Pow2(n) |-> [j \in 1..n |-> ((r - 1) \div Pow2(n - j)) % 2 = 0]]

RECURSIVE dt_table_headers(_, _, _)
\* the zip(headers, combination) loop
dt_table_headers(headers, combination, rnd) ==
    IF headers = <<>> THEN EmptyMap
    ELSE LET n == Len(headers)
             rest == dt_table_headers(SubSeq(headers, 1, n - 1),
                                      SubSeq(combination, 1, n - 1), rnd)
         IN  IF combination[n]
             THEN Put(rest, headers[n].name, generate_valid_value(headers[n], rnd))
             ELSE rest

\* variant: the headers outside the table are left out
dt_table_headers_only(all_required, headers, map, rnd) == map

RECURSIVE dt_other_headers(_, _, _, _)
\* the loop over all required headers: those outside the table whose name is not set yet
dt_other_headers(all_required, headers, map, rnd) ==
    IF all_required = <<>> THEN map
    ELSE LET header == Head(all_required)
             next == IF header \notin Range(headers) /\ header.name \notin DOMAIN map
                     THEN Put(map, header.name, generate_valid_value(header, rnd))
                     ELSE map
         IN  dt_other_headers(Tail(all_required), headers, next, rnd)

determine_expected_status(e, is_valid) ==
    IF is_valid THEN get_first_success_code(e) ELSE get_first_error_code(e)

create_decision_table_case(e, headers, combination, rnd) ==
    LET test_data ==
            TestData(
                dt_other_headers(get_required_headers(e), headers,
                                 dt_table_headers(headers, combination, rnd), rnd),
                ep_params(get_path_params(e), "path", NoExclude, rnd),
                EmptyMap,
                BodyNone)
        is_valid == \A j \in DOMAIN combination : combination[j]
        expected_status == determine_expected_status(e, is_valid)
    IN  TestCase(DataRaised(test_data) \/ expected_status.raised, TRUE,
                 "decision_table", "", PyNone, "", combination,
                 "decision_table", IF is_valid THEN "positive" ELSE "negative",
                 IF is_valid THEN "medium" ELSE "high",
                 test_data, expected_status.v)

generate_header_decision_table(e, headers, rnd) ==
    LET combinations == product(Len(headers))
    IN  [r \in 1..Len(combinations) |->
            create_decision_table_case(e, headers, combinations[r], rnd)]

\* variant: a table for a single required header as well
dt_generate_from_one(e, rnd) ==
    LET required_headers == get_required_headers(e)
    IN  IF Len(required_headers) >= 1
        THEN generate_header_decision_table(
                 e, SubSeq(required_headers, 1, Min2(MaxTableHeaders, Len(required_headers))),
                 rnd)
        ELSE <<>>

\* the cases of DecisionTableGenerator.generate, in order, ids not yet set
dt_generate(e, rnd) ==
    LET required_headers == get_required_headers(e)
    IN  IF Len(required_headers) >= 2
        THEN generate_header_decision_table(
                 e, SubSeq(required_headers, 1, Min2(MaxTableHeaders, Len(required_headers))),
                 rnd)
        ELSE <<>>

-----------------------------------------------------------------------------
(* BoundaryValueGenerator *)

\* 'minLength' in schema: the key is there, null or not
has_boundaries(param) ==
    LET schema == param.schema
    IN  \/ schema.minLength.st # "absent" \/ schema.maxLength.st # "absent"
        \/ schema.minimum.st # "absent" \/ schema.maximum.st # "absent"
        \/ schema.minItems.st # "absent" \/ schema.maxItems.st # "absent"

property_has_boundaries(prop) ==
    \/ prop.min_length.st = "val" \/ prop.minLength.st = "val"
    \/ prop.max_length.st = "val" \/ prop.maxLength.st = "val"
    \/ prop.minimum.st = "val" \/ prop.maximum.st = "val"

\* a number of the test data in tenths
Tenths(value) == IF value.k = "int" THEN 10 * value.n ELSE value.n

Verdict(raised, ok) == [raised |-> raised, ok |-> ok]

\* variant: the bounds themselves are out of range
is_strictly_within_bounds(param, value) ==
    LET schema == param.schema
    IN  CASE value.k = "str" ->
                 Verdict(FALSE, /\ Get(schema.minLength, 0).v < value.n
                                /\ (schema.maxLength.st = "val" => value.n < schema.maxLength.v))
          [] value.k \in {"int", "num"} ->
                 Verdict(FALSE, /\ (schema.minimum.st = "val"
                                        => 10 * schema.minimum.v < Tenths(value))
                                /\ (schema.maximum.st = "val"
                                        => Tenths(value) < 10 * schema.maximum.v))
          [] OTHER -> Verdict(FALSE, TRUE)

\* min_len <= len(value) <= max_len with the defaults 0 and inf; the chained
\* comparison stops at the first False, and comparing with None raises
is_valid_boundary_value(param, value) ==
    LET schema == param.schema
    IN  CASE value.k = "str" ->
                 LET min_len == Get(schema.minLength, 0)
                     max_len == schema.maxLength
                 IN  IF min_len.st = "none" THEN Verdict(TRUE, FALSE)
                     ELSE IF ~(min_len.v <= value.n) THEN Verdict(FALSE, FALSE)
                     ELSE IF max_len.st = "absent" THEN Verdict(FALSE, TRUE)
                     ELSE IF max_len.st = "none" THEN Verdict(TRUE, FALSE)
                     ELSE Verdict(FALSE, value.n <= max_len.v)
          [] value.k \in {"int", "num"} ->
                 LET minimum == schema.minimum
                     maximum == schema.maximum
                 IN  IF minimum.st = "none" THEN Verdict(TRUE, FALSE)
                     ELSE IF minimum.st = "val" /\ ~(10 * minimum.v <= Tenths(value))
                     THEN Verdict(FALSE, FALSE)
                     ELSE IF maximum.st = "absent" THEN Verdict(FALSE, TRUE)
                     ELSE IF maximum.st = "none" THEN Verdict(TRUE, FALSE)
                     ELSE Verdict(FALSE, Tenths(value) <= 10 * maximum.v)
          [] OTHER -> Verdict(FALSE, TRUE)

RECURSIVE bva_headers(_, _, _, _, _)
\* the loops of _create_valid_test_data: override is on when param_location is this
\* loop's location, and then name is the one key of override_values
bva_headers(params, override, name, value, rnd) ==
    IF params = <<>> THEN EmptyMap
    ELSE LET param == params[Len(params)]
             rest == bva_headers(SubSeq(params, 1, Len(params) - 1),
                                 override, name, value, rnd)
         IN  IF override /\ param.name = name THEN Put(rest, param.name, value)
             ELSE Put(rest, param.name, generate_valid_value(param, rnd))

\* override_values = {name: value} (has_override) or None
create_valid_test_data(e, has_override, name, value, param_location, rnd) ==
    TestData(
        bva_headers(get_required_headers(e),
                    has_override /\ param_location = "header", name, value, rnd),
        bva_headers(get_path_params(e),
                    has_override /\ param_location = "path", name, value, rnd),
        bva_headers(RequiredOnly(get_query_params(e)),
                    has_override /\ param_location = "query", name, value, rnd),
        BodyNone)

create_body_with_property_value(body, target_prop_name, target_value, rnd) ==
    BodyDict(ObjectOf(body, body.properties, target_prop_name, target_value, rnd))

create_param_boundary_case(e, param, boundary_value, is_valid, rnd) ==
    LET test_data == create_valid_test_data(e, TRUE, param.name, boundary_value,
                                            param.in, rnd)
        success_code == get_first_success_code(e)
        error_code == get_first_error_code(e)
        expected_status == IF is_valid THEN success_code ELSE error_code
    IN  TestCase(DataRaised(test_data) \/ success_code.raised \/ error_code.raised, TRUE,
                 "param_boundary", param.name, boundary_value, "", <<>>,
                 "boundary_value_analysis",
                 IF is_valid THEN "positive" ELSE "negative", "high",
                 test_data, expected_status.v)

\* _is_valid_boundary_value raised: _test_counter was not incremented
ValidityRaised(e, param, boundary_value) ==
    TestCase(TRUE, FALSE, "param_boundary", param.name, boundary_value, "", <<>>,
             "boundary_value_analysis", "negative", "high",
             TestData(EmptyMap, EmptyMap, EmptyMap, BodyNone), 0)

generate_param_boundary_cases(e, param, rnd) ==
    LET boundary_values == generate_boundary_values(param)
    IN  [i \in 1..Len(boundary_values) |->
            LET is_valid == is_valid_boundary_value(param, boundary_values[i])
            IN  IF is_valid.raised THEN ValidityRaised(e, param, boundary_values[i])
                ELSE create_param_boundary_case(e, param, boundary_values[i],
                                                is_valid.ok, rnd)]

\* _create_property_boundary_case and _create_numeric_property_case: the former
\* makes the string of the given length, the latter takes the number as it is
create_property_case(e, kind, prop_name, value, is_valid, boundary_type, rnd) ==
    LET data == create_valid_test_data(e, FALSE, "", PyNone, "None", rnd)
        body == create_body_with_property_value(e.request_body, prop_name, value, rnd)
        test_data == [data EXCEPT !.body = body]
        success_code == get_first_success_code(e)
        error_code == get_first_error_code(e)
        expected_status == IF is_valid THEN success_code ELSE error_code
    IN  TestCase(DataRaised(test_data) \/ success_code.raised \/ error_code.raised, TRUE,
                 kind, prop_name, value, boundary_type, <<>>,
                 "boundary_value_analysis",
                 IF is_valid THEN "positive" ELSE "negative", "high",
                 test_data, expected_status.v)

create_property_boundary_case(e, prop_name, length, is_valid, boundary_type, rnd) ==
    create_property_case(e, "property_length", prop_name,
                         IF length >= 0 THEN random_string(length) ELSE Val("str", 0, ""),
                         is_valid, boundary_type, rnd)

\* variant: every numeric property case is tagged positive
create_numeric_property_case_positive(e, prop_name, value, is_valid, boundary_type, rnd) ==
    create_property_case(e, "property_numeric", prop_name, Val("int", value, ""),
                         TRUE, boundary_type, rnd)

create_numeric_property_case(e, prop_name, value, is_valid, boundary_type, rnd) ==
    create_property_case(e, "property_numeric", prop_name, Val("int", value, ""),
                         is_valid, boundary_type, rnd)

generate_property_boundary_cases(e, prop, rnd) ==
    LET min_length == Get2(prop.min_length, prop.minLength)
        max_length == Get2(prop.max_length, prop.maxLength)
        minimum == prop.minimum
        maximum == prop.maximum
    IN  (IF min_length.st = "val"
         THEN <<create_property_boundary_case(e, prop.name, min_length.v, TRUE,
                                              "min_length", rnd)>>
              \o (IF min_length.v > 0
                  THEN <<create_property_boundary_case(e, prop.name, min_length.v - 1,
                                                       FALSE, "below_min", rnd)>>
                  ELSE <<>>)
         ELSE <<>>)
        \o (IF max_length.st = "val"
            THEN <<create_property_boundary_case(e, prop.name, max_length.v, TRUE,
                                                 "max_length", rnd),
                   create_property_boundary_case(e, prop.name, max_length.v + 1, FALSE,
                                                 "above_max", rnd)>>
            ELSE <<>>)
        \o (IF minimum.st = "val"
            THEN <<create_numeric_property_case(e, prop.name, minimum.v, TRUE,
                                                "minimum", rnd),
                   create_numeric_property_case(e, prop.name, minimum.v - 1, FALSE,
                                                "below_min", rnd)>>
            ELSE <<>>)
        \o (IF maximum.st = "val"
            THEN <<create_numeric_property_case(e, prop.name, maximum.v, TRUE,
                                                "maximum", rnd),
                   create_numeric_property_case(e, prop.name, maximum.v + 1, FALSE,
                                                "above_max", rnd)>>
            ELSE <<>>)

RECURSIVE Flatten(_)
\* test_cases.extend(...) over a loop
Flatten(lists) == IF lists = <<>> THEN <<>> ELSE Head(lists) \o Flatten(Tail(lists))

\* the cases of BoundaryValueGenerator.generate, in order, ids not yet set
bva_generate(e, rnd) ==
    LET bounded == SelectSeq(e.parameters, has_boundaries)
        properties == IF e.request_body.present
                      THEN SelectSeq(e.request_body.properties, property_has_boundaries)
                      ELSE <<>>
    IN  Flatten([i \in 1..Len(bounded) |->
                    generate_param_boundary_cases(e, bounded[i], rnd)])
        \o Flatten([i \in 1..Len(properties) |->
                       generate_property_boundary_cases(e, properties[i], rnd)])

-----------------------------------------------------------------------------
(* Endpoint views the generators are run on *)

Bounds == 0..MaxBound
OptionalBounds == {KeyAbsent} \cup {Key(n) : n \in Bounds}
NullableBounds == {KeyNone} \cup {Key(n) : n \in Bounds}

EndpointView(parameters, request_body, responses) ==
    [parameters |-> parameters, request_body |-> request_body, responses |-> responses]

\* the schema the reader makes up for a parameter that has none
ReaderSchema(type, format) ==
    [EmptyDict EXCEPT !.type = type, !.format = format, !.example = KeyNone]
\* a schema object of the contract
TypedSchema(type) == [EmptyDict EXCEPT !.type = type]

Header(name) == Param(name, "header", TRUE, "string", "None", ReaderSchema("string", "None"))
HeaderWithFormat(name, format) ==
    Param(name, "header", TRUE, "string", format, ReaderSchema("string", format))
\* the format on the parameter record only, resp. in the schema only
HeaderRecordFormat(name, format) ==
    Param(name, "header", TRUE, "string", format, TypedSchema("string"))
HeaderSchemaFormat(name, format) ==
    Param(name, "header", TRUE, "string", "None",
          [TypedSchema("string") EXCEPT !.format = format])
OptionalHeader(name) ==
    Param(name, "header", FALSE, "string", "None", ReaderSchema("string", "None"))

H1 == Header("X-Api-Key")
H2 == Header("X-Client-Id")
H3 == Header("X-Trace-Id")
H4 == Header("X-Tenant")

HeaderLists ==
    { <<>>, <<H1>>, <<H1, H2>>, <<H1, H2, H3>>, <<H1, H2, H3, H4>>,
      <<OptionalHeader("X-Opt")>>,
      <<HeaderWithFormat("X-Request-Id", "uuid"), H2>>,
      <<H1, OptionalHeader("X-Opt"), HeaderRecordFormat("X-Contact", "email")>>,
      <<HeaderSchemaFormat("X-Since", "date"), H2, H3,
        HeaderWithFormat("X-Stamp", "date-time")>> }

\* body properties as the analysis export writes them (every key, null when unset)
ExportedProperty(name, type, format) ==
    [EmptyDict EXCEPT !.name = name, !.type = type, !.format = format,
                      !.example = KeyNone,
                      !.min_length = KeyNone, !.max_length = KeyNone,
                      !.minimum = KeyNone, !.maximum = KeyNone]
\* and with only the keys that are set
SparseProperty(name, type) == [EmptyDict EXCEPT !.name = name, !.type = type]

EmailProperty == [ExportedProperty("email", "string", "email") EXCEPT !.required = TRUE]
NoteProperty == ExportedProperty("note", "string", "None")

PlainBodies ==
    { NoBody,
      Body(TRUE, "object", <<EmailProperty, NoteProperty>>, {"email"}),
      Body(FALSE, "object", <<EmailProperty, NoteProperty>>, {"email"}),
      Body(TRUE, "object",
           <<SparseProperty("title", "string"), SparseProperty("count", "integer"), NoteProperty>>,
           {"title", "count"}),
      Body(TRUE, "object", <<ExportedProperty("title", "string", "None")>>, {"title"}) }

Responses ==
    { <<>>,
      << <<"2", "0", "0">>, <<"4", "0", "4">> >>,
      << <<"d", "e", "f", "a", "u", "l", "t">>, <<"3", "0", "1">>, <<"2", "0", "1">>,
         <<"2", "0", "0">>, <<"5", "0", "0">>, <<"4", "0", "4">> >>,
      << <<"2", "X", "X">>, <<"4", "0", "4">> >>,
      << <<"2", "0", "0">>, <<"4", "X", "X">> >> }

NumericResponses ==
    { << <<"2", "0", "0">>, <<"4", "0", "4">> >>,
      << <<"3", "0", "1">>, <<"5", "0", "0">>, <<"2", "0", "1">> >> }

\* endpoints that differ in their required headers, body and responses
HeaderEndpoints ==
    { EndpointView(h, b, r) : h \in HeaderLists, b \in PlainBodies, r \in Responses }

\* one bounded parameter
IntegerPath ==
    { Param("id", "path", TRUE, "integer", "None",
            [TypedSchema("integer") EXCEPT !.minimum = lo, !.maximum = hi]) :
        lo \in OptionalBounds, hi \in OptionalBounds }

StringQuery ==
    { Param("q", "query", req, "string", "None",
            [TypedSchema("string") EXCEPT !.minLength = lo, !.maxLength = hi]) :
        req \in BOOLEAN, lo \in OptionalBounds, hi \in OptionalBounds }

StringHeader ==
    { Param("X-Bounded", "header", req, "string", "None",
            [TypedSchema("string") EXCEPT !.minLength = lo, !.maxLength = Key(MaxBound)]) :
        req \in BOOLEAN, lo \in {KeyAbsent, Key(1)} }

NumberQuery ==
    { Param("ratio", "query", TRUE, "number", "None",
            [TypedSchema("number") EXCEPT !.minimum = lo, !.maximum = Key(MaxBound)]) :
        lo \in {KeyAbsent, Key(1)} }

ArrayQuery ==
    { Param("ids", "query", TRUE, "array", "None",
            [TypedSchema("array") EXCEPT !.minItems = lo, !.maxItems = Key(MaxBound)]) :
        lo \in {KeyAbsent, Key(1)} }

\* a schema that carries min_length / max_length next to the OpenAPI keys, one
\* whose minLength is null, and one that declares an enum next to its bounds
OddStringQuery ==
    { Param("q", "query", TRUE, "string", "None",
            [TypedSchema("string") EXCEPT !.min_length = Key(MaxBound),
                                          !.maxLength = Key(MaxBound + 1)]),
      Param("q", "query", TRUE, "string", "None",
            [TypedSchema("string") EXCEPT !.minLength = Key(1),
                                          !.max_length = Key(1),
                                          !.maxLength = Key(MaxBound)]),
      Param("q", "query", TRUE, "string", "None",
            [TypedSchema("string") EXCEPT !.minLength = KeyNone,
                                          !.maxLength = Key(MaxBound)]),
      Param("q", "query", TRUE, "string", "None",
            [TypedSchema("string") EXCEPT !.enum = <<Val("lit", 0, "asc"), Val("lit", 0, "desc")>>,
                                          !.minLength = Key(1),
                                          !.maxLength = Key(MaxBound)]) }

BoundedParams ==
    IntegerPath \cup StringQuery \cup StringHeader \cup NumberQuery \cup ArrayQuery
    \cup OddStringQuery

ParamEndpoints ==
    { EndpointView(<<H1, p>>, NoBody, r) : p \in BoundedParams, r \in NumericResponses }

\* GET /items/{id}: id an integer in [1, 1000], responses 200 and 404
ItemsEndpoint ==
    EndpointView(
        <<Param("id", "path", TRUE, "integer", "None",
                [TypedSchema("integer") EXCEPT !.minimum = Key(1), !.maximum = Key(1000)])>>,
        NoBody, << <<"2", "0", "0">>, <<"4", "0", "4">> >>)

\* one bounded body property, required or not, next to a required and an optional one
NumericProperties ==
    { [ExportedProperty("age", "integer", "None") EXCEPT
           !.minimum = lo, !.maximum = hi, !.required = req] :
        lo \in NullableBounds, hi \in NullableBounds, req \in BOOLEAN }

LengthProperties ==
    { [ExportedProperty("name", "string", "None") EXCEPT
           !.min_length = lo, !.max_length = hi, !.required = req] :
        lo \in NullableBounds, hi \in NullableBounds, req \in BOOLEAN }
    \cup
    { [SparseProperty("name", "string") EXCEPT
           !.minLength = lo, !.maxLength = Key(MaxBound), !.required = req] :
        lo \in OptionalBounds, req \in BOOLEAN }
    \cup
    { [SparseProperty("name", "string") EXCEPT
           !.enum = <<Val("lit", 0, "asc"), Val("lit", 0, "desc")>>,
           !.minLength = Key(1), !.maxLength = Key(MaxBound), !.required = TRUE] }

BoundedProperties == NumericProperties \cup LengthProperties

PropertyEndpoints ==
    { EndpointView(<<H1>>, Body(breq, "object", <<EmailProperty, p, NoteProperty>>, {"email"}),
                   << <<"2", "0", "1">>, <<"4", "0", "0">> >>) :
        p \in BoundedProperties, breq \in BOOLEAN }

EndpointViews ==
    HeaderEndpoints \cup ParamEndpoints \cup {ItemsEndpoint} \cup PropertyEndpoints

\* analyses of two endpoints
PairedViews ==
    { EndpointView(<<H1, H2>>, NoBody, << <<"2", "0", "0">>, <<"4", "0", "4">> >>),
      ItemsEndpoint,
      EndpointView(<<H1>>, Body(TRUE, "object", <<EmailProperty>>, {"email"}), <<>>),
      EndpointView(<<H1>>,
                   Body(TRUE, "object", <<ExportedProperty("title", "string", "None")>>,
                        {"title"}),
                   << <<"2", "0", "1">>, <<"4", "0", "0">> >>) }

Analyses ==
    { <<e>> : e \in EndpointViews } \cup { <<e1, e2>> : e1 \in PairedViews, e2 \in PairedViews }

\* the draws of the process-wide random source that decide a value
RandomDraws == {0, 1}

-----------------------------------------------------------------------------
(* The generators as a state machine *)

Techniques == {"equivalence_partitioning", "boundary_value_analysis", "decision_table"}

Prefix(tech) ==
    CASE tech = "equivalence_partitioning" -> <<"E", "P", "-">>
      [] tech = "boundary_value_analysis" -> <<"B", "V", "A", "-">>
      [] tech = "decision_table" -> <<"D", "T", "-">>

\* the first method that raised, 0 if none did
FirstRaised(attempts) ==
    IF \E i \in DOMAIN attempts : attempts[i].raised
    THEN CHOOSE i \in DOMAIN attempts :
             attempts[i].raised /\ \A j \in 1..(i - 1) : ~attempts[j].raised
    ELSE 0

\* id=f"EP-{self._test_counter:03d}" of the i-th case of a call
WithIds(attempts, tech, start) ==
    [i \in DOMAIN attempts |->
        [attempts[i] EXCEPT !.id = Prefix(tech) \o Format03d(start + i)]]

\* variant: the three generators count on one shared counter
generate_on_shared_counter(tech, i, attempts) ==
    LET first == FirstRaised(attempts)
        made == IF first = 0 THEN Len(attempts) ELSE first - 1
    IN  /\ calls < MaxCalls
        /\ calls' = calls + 1
        /\ endpoint' = i
        /\ technique' = tech
        /\ UNCHANGED <<analysis, inflight, valueVars, suiteVars>>
        /\ outcome' = IF first = 0 THEN "returned" ELSE "raised"
        /\ cases' = IF first = 0 THEN WithIds(attempts, tech, counter[tech]) ELSE <<>>
        /\ counter' = [t \in Techniques |-> counter[tech] + made]
        /\ created' = [created EXCEPT ![tech] = @ + made]

\* One generate() call: each method that creates a case increments the counter
\* first; an exception ends the call with nothing returned.
Generate(tech, i, attempts) ==
    LET first == FirstRaised(attempts)
    IN  /\ calls < MaxCalls
        /\ calls' = calls + 1
        /\ endpoint' = i
        /\ technique' = tech
        /\ UNCHANGED <<analysis, inflight, valueVars, suiteVars>>
        /\ IF first = 0
           THEN /\ outcome' = "returned"
                /\ cases' = WithIds(attempts, tech, counter[tech])
                /\ counter' = [counter EXCEPT ![tech] = @ + Len(attempts)]
                /\ created' = [created EXCEPT ![tech] = @ + Len(attempts)]
           ELSE /\ outcome' = "raised"
                /\ cases' = <<>>
                /\ counter' = [counter EXCEPT
                                  ![tech] = @ + (first - 1)
                                              + (IF attempts[first].counted THEN 1 ELSE 0)]
                /\ created' = [created EXCEPT ![tech] = @ + (first - 1)]

GenerateEP ==
    \E i \in DOMAIN analysis, rnd \in RandomDraws :
        Generate("equivalence_partitioning", i, ep_generate(analysis[i], rnd))

GenerateBVA ==
    \E i \in DOMAIN analysis, rnd \in RandomDraws :
        Generate("boundary_value_analysis", i, bva_generate(analysis[i], rnd))

GenerateDT ==
    \E i \in DOMAIN analysis, rnd \in RandomDraws :
        Generate("decision_table", i, dt_generate(analysis[i], rnd))

\* no description is under the value generator
NoDescription == [kind |-> "none", param |-> Param("", "Absent", FALSE, "Absent", "Absent", EmptyDict),
                  prop |-> EmptyDict]

\* the techniques argument: None, or a list of names
NoTechniques == [given |-> FALSE, names |-> <<>>]
TechniqueList(names) == [given |-> TRUE, names |-> names]

\* generate_test_cases has not been called
NoRun == [outcome |-> "none", techniques |-> NoTechniques, technique_enums |-> NoTechniques,
          include_positive |-> TRUE, include_negative |-> TRUE, generated |-> <<>>]

\* the generators as TestCaseGeneratorTool.__init__ makes them
\* no summary was returned
NoSummary == [returned |-> FALSE, total_test_cases |-> 0, by_technique |-> [t \in {} |-> 0], by_type |-> [t \in {} |-> 0], by_priority |-> [t \in {} |-> 0]]

Init ==
    /\ analysis \in Analyses
    /\ endpoint = 0
    /\ technique = "none"
    /\ counter = [t \in Techniques |-> 0]
    /\ outcome = "none"
    /\ cases = <<>>
    /\ calls = 0
    /\ created = [t \in Techniques |-> 0]
    /\ inflight = <<>>
    /\ description = NoDescription
    /\ produced = <<>>
    /\ run = NoRun
    /\ suite = <<>>
    /\ summary = NoSummary

Next == GenerateEP \/ GenerateBVA \/ GenerateDT

Spec == Init /\ [][Next]_vars

-----------------------------------------------------------------------------
(* What the claims speak of *)

\* the endpoint of the last call
Ep == analysis[endpoint]

Returned(tech) == outcome = "returned" /\ technique = tech

CaseSet == Range(cases)

\* the first response key, in declaration order, whose first character is in chars
FirstKeyIn(e, chars) ==
    LET at == {i \in DOMAIN e.responses : e.responses[i][1] \in chars}
    IN  IF at = {} THEN <<>>
        ELSE e.responses[CHOOSE i \in at : \A j \in at : i <= j]

DeclaredCode(e, chars, fallback) ==
    IF FirstKeyIn(e, chars) = <<>> THEN fallback ELSE DecimalValue(FirstKeyIn(e, chars))

DeclaredSuccess(e) == DeclaredCode(e, {"2"}, 200)
DeclaredError(e) == DeclaredCode(e, {"4", "5"}, 400)

\* the status a case of the given polarity is to expect
DeclaredStatus(e, test_type) ==
    IF test_type = "positive" THEN DeclaredSuccess(e) ELSE DeclaredError(e)

RequiredHeadersOf(e) == SelectSeq(e.parameters, LAMBDA p : p.in = "header" /\ p.required)
RequiredHeaderNames(e) == {p.name : p \in Range(RequiredHeadersOf(e))}

\* the shape of a case: which case it is, for which input, of which polarity
Shape(kind, subject, test_type) ==
    [kind |-> kind, subject |-> subject, test_type |-> test_type]
ShapeOf(c) == Shape(c.kind, c.subject, c.test_type)

-----------------------------------------------------------------------------
\* C1: every case a generator returns expects a status taken from the endpoint's
\* responses: a negative case the first key, in declaration order, that starts
\* with 4 or 5, read as an integer, or 400 when there is none; a positive case
\* the first key that starts with 2, or 200 when there is none. Keys that start
\* with anything else (1xx, 3xx, default) are never selected.
C1_StatusFromResponses ==
    outcome = "returned" =>
        \A c \in CaseSet :
            /\ c.test_type \in {"positive", "negative"}
            /\ c.status_code = DeclaredStatus(Ep, c.test_type)

\* a returned list with a negative case expecting 500 and a positive one expecting
\* 201, the responses being declared as default, 301, 201, 200, 500, 404
C1_Witness ==
    /\ outcome = "returned"
    /\ Len(Ep.responses) = 6
    /\ Ep.responses[1] = <<"d", "e", "f", "a", "u", "l", "t">>
    /\ \E c \in CaseSet : c.test_type = "negative" /\ c.status_code = 500
    /\ \E c \in CaseSet : c.test_type = "positive" /\ c.status_code = 201

-----------------------------------------------------------------------------
\* the cases Equivalence Partitioning is to return for an endpoint, in order
ExpectedEPShapes(e) ==
    LET hs == RequiredHeadersOf(e)
        fs == SelectSeq(hs, LAMBDA p : p.format \notin {"Absent", "None", ""})
    IN  <<Shape("all_valid", "", "positive")>>
        \o [i \in 1..Len(hs) |-> Shape("missing_param", hs[i].name, "negative")]
        \o [i \in 1..Len(fs) |-> Shape("invalid_format", fs[i].name, "negative")]
        \o (IF e.request_body.present /\ e.request_body.required
            THEN <<Shape("empty_body", "", "negative")>>
            ELSE <<>>)

\* C2: what EquivalencePartitioningGenerator.generate returns is, in this order
\* and nothing else: one all-valid positive case; one missing-header negative
\* case per required header, in declaration order (the header is not in the
\* headers sent); one invalid-format negative case per required header whose
\* record declares a format (a malformed literal is sent for it); one empty-body
\* negative case if and only if the request body is required.
C2_EquivalencePartitioningCases ==
    Returned("equivalence_partitioning") =>
        /\ Len(cases) = Len(ExpectedEPShapes(Ep))
        /\ \A i \in DOMAIN cases :
            LET c == cases[i]
            IN  /\ ShapeOf(c) = ExpectedEPShapes(Ep)[i]
                /\ c.kind = "all_valid" =>
                       DOMAIN c.test_data.headers = RequiredHeaderNames(Ep)
                /\ c.kind = "missing_param" =>
                       DOMAIN c.test_data.headers = RequiredHeaderNames(Ep) \ {c.subject}
                /\ c.kind = "invalid_format" =>
                       /\ DOMAIN c.test_data.headers = RequiredHeaderNames(Ep)
                       /\ c.test_data.headers[c.subject].k = "lit"
                /\ c.kind = "empty_body" =>
                       c.test_data.body = BodyDict(EmptyMap)

\* four required headers, two of them with a format on their record, and a
\* required body: 1 + 4 + 1 + 1 cases (the format of X-Since is in its schema only)
C2_Witness ==
    /\ Returned("equivalence_partitioning")
    /\ Len(RequiredHeadersOf(Ep)) = 4
    /\ Ep.request_body.required
    /\ Len(cases) = 7
    /\ cases[6].kind = "invalid_format"
    /\ cases[7].kind = "empty_body"

-----------------------------------------------------------------------------
Positives == {i \in DOMAIN cases : cases[i].test_type = "positive"}

\* the table headers (the first three required ones) a case sends
Assignment(e, c) ==
    LET hs == RequiredHeadersOf(e)
    IN  [j \in 1..Min2(3, Len(hs)) |-> hs[j].name \in DOMAIN c.test_data.headers]

AllPresent(e, c) == \A j \in DOMAIN Assignment(e, c) : Assignment(e, c)[j]

\* C3 as claimed: for every endpoint with exactly k required headers, k <= 3 (k
\* ranging over 0, 1, 2, 3), DecisionTableGenerator.generate emits exactly 2^k
\* cases, exactly one of them (the all-present row) positive.
C3_Original ==
    (Returned("decision_table") /\ Len(RequiredHeadersOf(Ep)) <= 3) =>
        /\ Len(cases) = Pow2(Len(RequiredHeadersOf(Ep)))
        /\ Cardinality(Positives) = 1

\* C3 as amended: for every endpoint with exactly k required headers, k = 2 or
\* k = 3, DecisionTableGenerator.generate emits exactly 2^k cases, exactly one of
\* them (the all-present row) positive; with k = 0 or k = 1 it emits no case.
C3_DecisionTableSize ==
    (Returned("decision_table") /\ Len(RequiredHeadersOf(Ep)) <= 3) =>
        LET k == Len(RequiredHeadersOf(Ep))
        IN  IF k >= 2
            THEN /\ Len(cases) = Pow2(k)
                 /\ Cardinality(Positives) = 1
                 /\ \A i \in Positives : AllPresent(Ep, cases[i])
            ELSE cases = <<>>

\* the table of an endpoint with three required headers: 8 rows
C3_Witness ==
    /\ Returned("decision_table")
    /\ Len(RequiredHeadersOf(Ep)) = 3
    /\ Len(cases) = 8
    /\ Cardinality(Positives) = 1

-----------------------------------------------------------------------------
\* C4: for an endpoint with k >= 2 required headers the Decision Table generator
\* emits exactly 2^min(k,3) cases, one for each present/absent assignment over
\* the first min(k,3) required headers; a case is positive and expects the
\* success code iff every table header is present, so exactly one is positive and
\* the others are negative and expect the error code; a header marked absent is
\* not in the headers sent, and each required header beyond the third is sent
\* with a valid value.
C4_DecisionTableRows ==
    (Returned("decision_table") /\ Len(RequiredHeadersOf(Ep)) >= 2) =>
        LET hs == RequiredHeadersOf(Ep)
            n == Min2(3, Len(hs))
        IN  /\ Len(cases) = Pow2(n)
            /\ {Assignment(Ep, c) : c \in CaseSet} = [1..n -> BOOLEAN]
            /\ Cardinality(Positives) = 1
            /\ \A c \in CaseSet :
                /\ c.test_type = (IF AllPresent(Ep, c) THEN "positive" ELSE "negative")
                /\ c.status_code = DeclaredStatus(Ep, c.test_type)
                /\ \A j \in 1..n :
                       c.combination[j] = (hs[j].name \in DOMAIN c.test_data.headers)
                /\ DOMAIN c.test_data.headers \subseteq RequiredHeaderNames(Ep)
                /\ \A j \in (n + 1)..Len(hs) :
                       /\ hs[j].name \in DOMAIN c.test_data.headers
                       /\ \E rnd \in RandomDraws :
                              c.test_data.headers[hs[j].name] = generate_valid_value(hs[j], rnd)
                       /\ c.test_data.headers[hs[j].name].k \in {"str", "fmt"}

\* four required headers: a row without the first three that still sends the fourth
C4_Witness ==
    /\ Returned("decision_table")
    /\ Len(RequiredHeadersOf(Ep)) = 4
    /\ \E c \in CaseSet :
           /\ c.test_type = "negative"
           /\ DOMAIN c.test_data.headers = {RequiredHeadersOf(Ep)[4].name}

-----------------------------------------------------------------------------
\* a parameter schema or a property declares a length, numeric or item-count bound
DeclaresBound(d) ==
    \E key \in {d.min_length, d.max_length, d.minLength, d.maxLength,
                d.minimum, d.maximum, d.minItems, d.maxItems} : key.st = "val"

BoundedParamsOf(e) == {p \in Range(e.parameters) : DeclaresBound(p.schema)}
BoundedPropertiesOf(e) ==
    IF e.request_body.present
    THEN {q \in Range(e.request_body.properties) : DeclaresBound(q)}
    ELSE {}

\* the only bounded input of e is the integer path parameter p, with minimum m
\* and maximum M in its schema, m + 1 <= M - 1
SoleIntegerPath(e, p) ==
    /\ BoundedParamsOf(e) = {p}
    /\ BoundedPropertiesOf(e) = {}
    /\ p.in = "path"
    /\ p.schema.type = "integer"
    /\ p.schema.minimum.st = "val"
    /\ p.schema.maximum.st = "val"
    /\ p.schema.minimum.v + 1 <= p.schema.maximum.v - 1

\* C5: for an endpoint whose only bounded input is an integer path parameter with
\* minimum m and maximum M in its schema (m+1 <= M-1), Boundary Value Analysis
\* returns exactly six cases, in order, with the parameter valued m-1, m, m+1,
\* M-1, M, M+1; those at m-1 and M+1 are negative and expect the first declared
\* error code, the other four are positive and expect the first declared success
\* code (GET /items/{id}, 1..1000, 200 and 404: 0->404, 1->200, 2->200, 999->200,
\* 1000->200, 1001->404).
C5_IntegerPathBoundaries ==
    Returned("boundary_value_analysis") =>
        \A p \in Range(Ep.parameters) :
            SoleIntegerPath(Ep, p) =>
                LET m == p.schema.minimum.v
                    M == p.schema.maximum.v
                    values == <<m - 1, m, m + 1, M - 1, M, M + 1>>
                    types == <<"negative", "positive", "positive",
                               "positive", "positive", "negative">>
                IN  /\ Len(cases) = 6
                    /\ \A i \in 1..6 :
                        /\ p.name \in DOMAIN cases[i].test_data.path_params
                        /\ cases[i].test_data.path_params[p.name] = Val("int", values[i], "")
                        /\ cases[i].test_type = types[i]
                        /\ cases[i].status_code = DeclaredStatus(Ep, types[i])

\* GET /items/{id}: id = 0 -> 404, 1 -> 200, 2 -> 200, 999 -> 200, 1000 -> 200, 1001 -> 404
C5_Witness ==
    /\ Returned("boundary_value_analysis")
    /\ Ep = ItemsEndpoint
    /\ [i \in 1..6 |-> <<cases[i].test_data.path_params["id"].n, cases[i].status_code>>]
           = << <<0, 404>>, <<1, 200>>, <<2, 200>>, <<999, 200>>, <<1000, 200>>, <<1001, 404>> >>

-----------------------------------------------------------------------------
\* a case written for body property q at the number v, of the given polarity; a
\* required property carries v in the body sent
NumericCaseAt(e, q, v, test_type) ==
    \E c \in CaseSet :
        /\ c.kind = "property_numeric"
        /\ c.subject = q.name
        /\ c.value = Val("int", v, "")
        /\ c.test_type = test_type
        /\ (q.name \in e.request_body.requiredNames \/ q.required) =>
               /\ c.test_data.body.kind = "dict"
               /\ q.name \in DOMAIN c.test_data.body.d
               /\ c.test_data.body.d[q.name] = Val("int", v, "")

-----------------------------------------------------------------------------
\* the bounds the boundary values of an input are generated from
GeneratedMinLength(d) == Get2(d.min_length, d.minLength)
GeneratedMaxLength(d) == Get2(d.max_length, d.maxLength)

\* n lies within [lo, hi], a bound that is not declared counting as unbounded
Within(n, lo, hi) ==
    /\ lo.st = "val" => lo.v <= n
    /\ hi.st = "val" => n <= hi.v

\* the schema or property a boundary case was created for
SubjectOf(e, c) ==
    IF c.kind = "param_boundary"
    THEN (CHOOSE p \in Range(e.parameters) : p.name = c.subject).schema
    ELSE CHOOSE q \in Range(e.request_body.properties) : q.name = c.subject

IsLengthCase(c) ==
    \/ c.kind = "param_boundary" /\ c.value.k = "str"
    \/ c.kind = "property_length"

IsNumericCase(c) ==
    \/ c.kind = "param_boundary" /\ c.value.k \in {"int", "num"}
    \/ c.kind = "property_numeric"

\* C7: the polarity of every Boundary Value Analysis case, created for a
\* parameter or for a body property, is that of its value under test against the
\* declared bounds that produced it: the case is positive iff the string length
\* lies within [minLength, maxLength], respectively the number within
\* [minimum, maximum], an undeclared bound counting as unbounded.
C7_PolarityRechecked ==
    Returned("boundary_value_analysis") =>
        \A c \in CaseSet :
            LET d == SubjectOf(Ep, c)
            IN  /\ IsLengthCase(c) =>
                       ((c.test_type = "positive")
                            <=> Within(c.value.n, GeneratedMinLength(d), GeneratedMaxLength(d)))
                /\ IsNumericCase(c) =>
                       ((c.test_type = "positive")
                            <=> Within(Tenths(c.value), [d.minimum EXCEPT !.v = 10 * @],
                                       [d.maximum EXCEPT !.v = 10 * @]))

\* C8: a string boundary case whose value has length minLength - 1 (minLength > 0)
\* is tagged negative, minLength being the bound the value was generated from
\* (generation and validity check read the same bound).
C8_BelowMinLengthNegative ==
    Returned("boundary_value_analysis") =>
        \A c \in CaseSet :
            IsLengthCase(c) =>
                LET lo == GeneratedMinLength(SubjectOf(Ep, c))
                IN  (lo.st = "val" /\ lo.v > 0 /\ c.value.n = lo.v - 1)
                        => c.test_type = "negative"

-----------------------------------------------------------------------------
NamesOf(params) == {p.name : p \in Range(params)}

\* the collection of the test data for a location
Collection(td, location) ==
    CASE location = "header" -> td.headers
      [] location = "path" -> td.path_params
      [] location = "query" -> td.query_params

\* the names an all-valid request carries at a location
ValidNames(e, location) ==
    NamesOf(SelectSeq(e.parameters,
                      LAMBDA p : p.in = location /\ (location = "path" \/ p.required)))

\* C9: every boundary case created for a bounded header, path or query parameter
\* p, required or optional, carries p's name mapped to the boundary value in the
\* collection of p's location, and nothing else differs from an all-valid request.
C9_ParamBoundaryCarried ==
    Returned("boundary_value_analysis") =>
        \A c \in CaseSet :
            c.kind = "param_boundary" =>
                LET p == CHOOSE p \in Range(Ep.parameters) : p.name = c.subject
                IN  p.in \in {"header", "path", "query"} =>
                        /\ p.name \in DOMAIN Collection(c.test_data, p.in)
                        /\ Collection(c.test_data, p.in)[p.name] = c.value
                        /\ \A location \in {"header", "path", "query"} :
                               DOMAIN Collection(c.test_data, location)
                                   = ValidNames(Ep, location)
                                       \cup (IF location = p.in THEN {p.name} ELSE {})

\* C10: every boundary case created for a bounded request-body property carries,
\* in its body, that property's name mapped to the boundary value (a string of
\* the boundary length or the boundary number), whether or not the property is
\* marked required; every other required property is there with a valid value.
C10_PropertyBoundaryCarried ==
    Returned("boundary_value_analysis") =>
        \A c \in CaseSet :
            c.kind \in {"property_length", "property_numeric"} =>
                /\ c.test_data.body.kind = "dict"
                /\ c.subject \in DOMAIN c.test_data.body.d
                /\ c.test_data.body.d[c.subject] = c.value
                /\ \A q \in Range(Ep.request_body.properties) :
                       (q.name # c.subject
                            /\ (q.name \in Ep.request_body.requiredNames \/ q.required)) =>
                           /\ q.name \in DOMAIN c.test_data.body.d
                           /\ c.test_data.body.d[q.name].k \in {"str", "fmt", "int", "example"}

-----------------------------------------------------------------------------
\* the test data holds every required input of e
CompleteRequest(e, td) ==
    /\ RequiredHeaderNames(e) \subseteq DOMAIN td.headers
    /\ ValidNames(e, "path") \subseteq DOMAIN td.path_params
    /\ ValidNames(e, "query") \subseteq DOMAIN td.query_params
    /\ (e.request_body.present /\ e.request_body.required) => td.body.kind # "none"

\* C11: every positive case returned by any of the three generators is a
\* complete request: its test data holds every required header, every path
\* parameter, every required query parameter, and a body whenever the request
\* body of the endpoint is required.
C11_PositiveCasesComplete ==
    outcome = "returned" =>
        \A c \in CaseSet :
            c.test_type = "positive" => CompleteRequest(Ep, c.test_data)

-----------------------------------------------------------------------------
(* Direct use of SyntheticDataGenerator on one description *)

\* a body property record handed over as the param argument: it has no 'schema'
\* key, so param.get('schema', {}) is the empty dict
PropertyAsParam(prop) ==
    [name |-> prop.name, in |-> "Absent", required |-> prop.required, type |-> prop.type,
     format |-> prop.format, example |-> prop.example, schema |-> EmptyDict]

\* normalized parameters: the top-level example is always a key, null or set;
\* the schema object comes with or without type, example (missing, null, set),
\* enum and a length bound
DescribedParams ==
    { [Param("sort", "query", TRUE, type, format, schema) EXCEPT !.example = example] :
          type \in {"string", "boolean"},
          format \in {"None", "email"},
          example \in {KeyNone, Key(7)},
          schema \in
              { [EmptyDict EXCEPT !.type = schema_type, !.example = schema_example,
                                  !.enum = enum, !.minLength = bound] :
                    schema_type \in {"Absent", "string", "integer", "number"},
                    schema_example \in {KeyAbsent, KeyNone, Key(9)},
                    enum \in {<<>>, <<Val("lit", 0, "asc"), Val("lit", 0, "desc")>>,
                              <<Val("int", 1, ""), Val("int", 2, "")>>},
                    bound \in {KeyAbsent, Key(MaxBound)} } }

\* body properties: exported (every key written) or sparse, with the format on
\* the record itself
DescribedProperties ==
    { [prop EXCEPT !.example = example, !.max_length = bound] :
          prop \in { ExportedProperty("email", "string", "email"),
                     ExportedProperty("email", "string", "None"),
                     ExportedProperty("age", "integer", "None"),
                     [SparseProperty("email", "string") EXCEPT !.format = "email"],
                     [SparseProperty("when", "string") EXCEPT !.format = "date"],
                     SparseProperty("age", "integer") },
          example \in {KeyNone, Key(7)},
          bound \in {KeyAbsent, Key(MaxBound)} }

\* parameters of type string or integer that declare one or both of their
\* bounds (OpenAPI keys only), the declared range never empty
OneOrTwoBounds ==
    { Param("size", "query", TRUE, type, "None",
            IF type = "string"
            THEN [TypedSchema(type) EXCEPT !.minLength = lo, !.maxLength = hi]
            ELSE [TypedSchema(type) EXCEPT !.minimum = lo, !.maximum = hi]) :
          type \in {"string", "integer"},
          lo \in {KeyAbsent, Key(1), Key(MaxBound), Key(DefaultMaximum + MaxBound)},
          hi \in {KeyAbsent, Key(0), Key(MaxBound), Key(DefaultMaximum + MaxBound)} }

NonEmptyRange(schema) ==
    /\ (schema.minLength.st = "val" /\ schema.maxLength.st = "val")
           => schema.minLength.v <= schema.maxLength.v
    /\ (schema.minimum.st = "val" /\ schema.maximum.st = "val")
           => schema.minimum.v <= schema.maximum.v

Descriptions ==
    { [kind |-> "param", param |-> param, prop |-> EmptyDict] :
          param \in DescribedParams \cup {p \in OneOrTwoBounds : NonEmptyRange(p.schema)} }
        \cup { [kind |-> "property", param |-> PropertyAsParam(prop), prop |-> prop] :
                   prop \in DescribedProperties }

ViolationTypes == {"null", "empty", "invalid_format", "wrong_type", "unknown"}

\* data_generator.generate_valid_value(description)
GenerateValidValue ==
    /\ Len(produced) < MaxCalls
    /\ \E rnd \in RandomDraws :
           produced' = Append(produced,
                              [op |-> "valid", violation_type |-> "",
                               v |-> generate_valid_value(description.param, rnd)])
    /\ UNCHANGED <<generatorVars, description, suiteVars>>

\* data_generator.generate_invalid_value(description, violation_type)
GenerateInvalidValue ==
    /\ Len(produced) < MaxCalls
    /\ \E violation_type \in ViolationTypes :
           produced' = Append(produced,
                              [op |-> "invalid", violation_type |-> violation_type,
                               v |-> generate_invalid_value(description.param,
                                                            violation_type)])
    /\ UNCHANGED <<generatorVars, description, suiteVars>>

\* data_generator._generate_value_from_property(prop), as the object and body
\* synthesis call it
GenerateValueFromProperty ==
    /\ Len(produced) < MaxCalls
    /\ description.kind = "property"
    /\ \E rnd \in RandomDraws :
           produced' = Append(produced,
                              [op |-> "property", violation_type |-> "",
                               v |-> generate_value_from_property(description.prop, rnd)])
    /\ UNCHANGED <<generatorVars, description, suiteVars>>

ValueInit ==
    /\ analysis = <<>>
    /\ endpoint = 0
    /\ technique = "none"
    /\ counter = [t \in Techniques |-> 0]
    /\ outcome = "none"
    /\ cases = <<>>
    /\ calls = 0
    /\ created = [t \in Techniques |-> 0]
    /\ inflight = <<>>
    /\ description \in Descriptions
    /\ produced = <<>>
    /\ run = NoRun
    /\ suite = <<>>
    /\ summary = NoSummary

ValueNext == GenerateValidValue \/ GenerateInvalidValue \/ GenerateValueFromProperty

ValueSpec == ValueInit /\ [][ValueNext]_vars

\* C12: for a body property record of type string with format email (the format
\* a field of the record itself) and no example,
\* generate_invalid_value(property, "invalid_format") returns the literal
\* "not-an-email".
C12_InvalidEmailLiteral ==
    ( /\ description.kind = "property"
      /\ description.prop.type = "string"
      /\ description.prop.format = "email"
      /\ description.prop.example.st # "val" ) =>
        \A i \in DOMAIN produced :
            (produced[i].op = "invalid" /\ produced[i].violation_type = "invalid_format")
                => produced[i].v = Val("lit", 0, "not-an-email")
\* the explicit examples a description carries, inside its schema or at its top level
CarriedExamples(d) ==
    {example \in {d.param.schema.example, d.param.example} : example.st = "val"}

\* C13: whenever a parameter or property description carries an explicit
\* example (inside its schema or at its top level), generate_valid_value and
\* the property synthesis return exactly that example, never a synthesized
\* value, whatever the declared type, format, enum or bounds; so two calls on
\* the same description return the same value.
C13_ExamplePreferred ==
    CarriedExamples(description) # {} =>
        /\ \A i \in DOMAIN produced :
               produced[i].op \in {"valid", "property"} =>
                   \E example \in CarriedExamples(description) :
                       produced[i].v = Val("example", example.v, "")
        /\ \A i, j \in DOMAIN produced :
               (produced[i].op = "valid" /\ produced[j].op = "valid")
                   => produced[i].v = produced[j].v

-----------------------------------------------------------------------------
\* C15: for any sequence of generate() calls on one generator instance, over any
\* endpoints, the n-th case the instance creates carries the technique prefix
\* (EP-, BVA- or DT-) followed by n zero-padded to three digits: the numbers go
\* up by exactly one per created case, never repeat and do not restart at an
\* endpoint boundary.
C15_SequentialIds ==
    outcome = "returned" =>
        \A i \in DOMAIN cases :
            cases[i].id = Prefix(technique)
                              \o Format03d(created[technique] - Len(cases) + i)

-----------------------------------------------------------------------------
(* TestCaseGeneratorTool.generate_test_cases and the suite builder *)

\* the values of ISTQBTechnique, in declaration order
TechniqueValues ==
    <<"equivalence_partitioning", "boundary_value_analysis", "decision_table",
      "state_transition", "use_case_testing", "syntax_testing">>

\* get_by_technique, get_by_type, get_by_priority: the cases whose tag has the value
get_by(test_cases, tag, value) == SelectSeq(test_cases, LAMBDA tc : tc[tag] = value)

\* a count of the techniques the tool has generators for only
count_by_generator_technique(test_cases) ==
    [t \in {t \in Techniques : get_by(test_cases, "technique", t) # <<>>} |->
        Len(get_by(test_cases, "technique", t))]

\* _count_by_technique: one entry per technique with at least one case
count_by_technique(test_cases) ==
    [t \in {t \in Range(TechniqueValues) : get_by(test_cases, "technique", t) # <<>>} |->
        Len(get_by(test_cases, "technique", t))]

\* _count_by_type: both polarities, zero included
count_by_type(test_cases) ==
    [t \in {"positive", "negative"} |-> Len(get_by(test_cases, "test_type", t))]

\* _count_by_priority: one entry per priority with at least one case
count_by_priority(test_cases) ==
    [p \in {p \in {"high", "medium", "low"} : get_by(test_cases, "priority", p) # <<>>} |->
        Len(get_by(test_cases, "priority", p))]

\* to_dict()['summary']
to_dict_summary(test_cases) ==
    [returned |-> TRUE,
     total_test_cases |-> Len(test_cases),
     by_technique |-> count_by_technique(test_cases),
     by_type |-> count_by_type(test_cases),
     by_priority |-> count_by_priority(test_cases)]

\* the conversion of every requested name, whether a value or not;
\* ISTQBTechnique(t) raises ValueError when t is not a value
technique_enums_unfiltered(techniques) ==
    IF techniques.given /\ techniques.names # <<>>
    THEN [raised |-> \E i \in DOMAIN techniques.names :
                         techniques.names[i] \notin Range(TechniqueValues),
          enums |-> TechniqueList(techniques.names)]
    ELSE [raised |-> FALSE, enums |-> NoTechniques]

\* technique_enums: None when techniques is None or empty, else ISTQBTechnique(t)
\* for the names t that are values of the enumeration, in request order;
\* ISTQBTechnique(t) raises ValueError when t is not a value
technique_enums(techniques) ==
    IF techniques.given /\ techniques.names # <<>>
    THEN LET kept == SelectSeq(techniques.names, LAMBDA t : t \in Range(TechniqueValues))
         IN  [raised |-> \E i \in DOMAIN kept : kept[i] \notin Range(TechniqueValues),
              enums |-> TechniqueList(kept)]
    ELSE [raised |-> FALSE, enums |-> NoTechniques]

\* build: techniques absent runs all three generators, otherwise only the named
\* generators run
selected_generators(techniques) ==
    IF techniques.given
    THEN SelectSeq(techniques.names, LAMBDA t : t \in Techniques)
    ELSE <<"equivalence_partitioning", "boundary_value_analysis", "decision_table">>

\* generator.generate(endpoint) of the generator of a technique
generator_call(tech, e, rnd) ==
    CASE tech = "equivalence_partitioning" -> ep_generate(e, rnd)
      [] tech = "boundary_value_analysis" -> bva_generate(e, rnd)
      [] tech = "decision_table" -> dt_generate(e, rnd)

RECURSIVE run_generators(_, _, _)
\* build: the cases are concatenated in generation order; an exception of a
\* generator ends the build. A step is a generator's technique with what its
\* generate() attempts for an endpoint; count and made are the generators'
\* counters and the numbers of cases they have built
run_generators(steps, count, made) ==
    IF steps = <<>>
    THEN [raised |-> FALSE, counter |-> count, created |-> made, generated |-> <<>>]
    ELSE LET tech == Head(steps).technique
             attempts == Head(steps).attempts
             first == FirstRaised(attempts)
         IN  IF first # 0
             THEN [raised |-> TRUE,
                   counter |-> [count EXCEPT
                                   ![tech] = @ + (first - 1)
                                               + (IF attempts[first].counted THEN 1 ELSE 0)],
                   created |-> [made EXCEPT ![tech] = @ + (first - 1)],
                   generated |-> <<>>]
             ELSE LET rest == run_generators(Tail(steps),
                                             [count EXCEPT ![tech] = @ + Len(attempts)],
                                             [made EXCEPT ![tech] = @ + Len(attempts)])
                  IN  IF rest.raised THEN rest
                      ELSE [rest EXCEPT
                               !.generated = WithIds(attempts, tech, count[tech]) \o @]

\* a filter that honours include_positive only
filter_by_positive_flag(generated, include_positive, include_negative) ==
    SelectSeq(generated, LAMBDA c : c.test_type = "negative" \/ include_positive)

\* build: the cases are filtered by polarity per the two flags
filter_by_polarity(generated, include_positive, include_negative) ==
    SelectSeq(generated,
              LAMBDA c : \/ c.test_type = "positive" /\ include_positive
                         \/ c.test_type = "negative" /\ include_negative)

\* tool.generate_test_cases(path, techniques, include_positive, include_negative):
\* the use case reads the endpoints and has the builder build the suite with the
\* tool's generators. One draw of the random source stands for the run's draws.
GenerateTestCases ==
    /\ calls < MaxCalls
    /\ \E techniques \in { NoTechniques,
                           TechniqueList(<<>>),
                           TechniqueList(<<"boundary_value_analysis">>),
                           TechniqueList(<<"decision_table", "exploratory",
                                           "equivalence_partitioning">>),
                           TechniqueList(<<"state_transition", "equivalence_partitioning">>),
                           TechniqueList(<<"bva">>) },
          include_positive \in BOOLEAN, include_negative \in BOOLEAN, rnd \in RandomDraws :
           LET conversion == technique_enums(techniques)
               enums == conversion.enums
               built == IF conversion.raised
                        THEN [raised |-> TRUE, counter |-> counter, created |-> created,
                              generated |-> <<>>]
                        ELSE LET generators == selected_generators(enums)
                                 \* each selected generator per endpoint, endpoint by endpoint
                                 steps == [k \in 1..(Len(analysis) * Len(generators)) |->
                                              LET tech == generators[((k - 1) % Len(generators)) + 1]
                                                  e == analysis[((k - 1) \div Len(generators)) + 1]
                                              IN  [technique |-> tech,
                                                   attempts |-> generator_call(tech, e, rnd)]]
                             IN  run_generators(steps, counter, created)
           IN  /\ run' = [outcome |-> IF built.raised THEN "raised" ELSE "returned",
                          techniques |-> techniques,
                          technique_enums |-> IF conversion.raised THEN NoTechniques ELSE enums,
                          include_positive |-> include_positive,
                          include_negative |-> include_negative,
                          generated |-> built.generated]
               /\ suite' = filter_by_polarity(built.generated, include_positive,
                                              include_negative)
               /\ summary' = to_dict_summary(filter_by_polarity(built.generated, include_positive,
                                                                include_negative))
               /\ counter' = built.counter
               /\ created' = built.created
    /\ calls' = calls + 1
    /\ UNCHANGED <<analysis, endpoint, technique, outcome, cases, inflight, valueVars>>

\* one tool object, as main.py makes it at import;
\* its analysis file is one of a few files of one or two endpoints
ToolInit ==
    /\ analysis \in
        { <<ItemsEndpoint>>,
          <<EndpointView(<<H1, H2>>, NoBody, << <<"2", "0", "0">>, <<"4", "0", "4">> >>),
            ItemsEndpoint>>,
          <<EndpointView(<<H1, H2, H3>>,
                         Body(TRUE, "object", <<EmailProperty, NoteProperty>>, {"email"}), <<>>)>>,
          <<ItemsEndpoint,
            EndpointView(<<H1>>,
                         Body(TRUE, "object", <<ExportedProperty("title", "string", "None")>>,
                              {"title"}),
                         << <<"2", "0", "1">>, <<"4", "0", "0">> >>)>>,
          <<EndpointView(<<>>, NoBody, <<>>)>> }
    /\ endpoint = 0
    /\ technique = "none"
    /\ counter = [t \in Techniques |-> 0]
    /\ outcome = "none"
    /\ cases = <<>>
    /\ calls = 0
    /\ created = [t \in Techniques |-> 0]
    /\ inflight = <<>>
    /\ description = NoDescription
    /\ produced = <<>>
    /\ run = NoRun
    /\ suite = <<>>
    /\ summary = NoSummary

ToolSpec == ToolInit /\ [][GenerateTestCases]_vars

\* the cases of a technique among those a run generated, in order
GeneratedBy(tech) == SelectSeq(run.generated, LAMBDA c : c.technique = tech)

\* C14: the case-numbering counter is per run: for any sequence of runs
\* requested through generate_test_cases on one tool object, in every run the
\* first case each technique creates is numbered 001, so two runs over the same
\* input assign the same ids.
C14_CounterPerRun ==
    run.outcome = "returned" =>
        \A tech \in Techniques :
            GeneratedBy(tech) # <<>> =>
                GeneratedBy(tech)[1].id = Prefix(tech) \o <<"0", "0", "1">>

\* the cases of a polarity among those a run generated, in generation order
GeneratedOfType(type) == SelectSeq(run.generated, LAMBDA c : c.test_type = type)

\* C16: with include_positive = false the built suite contains no positive
\* case and contains every negative case the selected generators produced, in
\* generation order; symmetrically with include_negative = false; with both
\* flags true no generated case is removed.
C16_PolarityFilter ==
    run.outcome = "returned" =>
        /\ ~run.include_positive => \A i \in DOMAIN suite : suite[i].test_type # "positive"
        /\ ~run.include_negative => \A i \in DOMAIN suite : suite[i].test_type # "negative"
        /\ ~run.include_positive /\ run.include_negative => suite = GeneratedOfType("negative")
        /\ run.include_positive /\ ~run.include_negative => suite = GeneratedOfType("positive")
        /\ run.include_positive /\ run.include_negative => suite = run.generated

\* a run without positives that generated cases of both polarities, a negative
\* one before a positive one
C16_Witness ==
    /\ run.outcome = "returned"
    /\ ~run.include_positive /\ run.include_negative
    /\ suite # <<>> /\ Len(suite) < Len(run.generated)
    /\ \E i, j \in DOMAIN run.generated :
           /\ i < j
           /\ run.generated[i].test_type = "negative"
           /\ run.generated[j].test_type = "positive"

\* some generator of the tool raises on some endpoint of the analysis
SomeGeneratorRaises ==
    \E i \in DOMAIN analysis, tech \in Techniques, rnd \in RandomDraws :
        FirstRaised(generator_call(tech, analysis[i], rnd)) # 0

\* kept is names without the names outside the enumeration, order preserved
KeepsEnumValues(names, kept) ==
    \E f \in [DOMAIN kept -> DOMAIN names] :
        /\ \A i, j \in DOMAIN kept : i < j => f[i] < f[j]
        /\ \A i \in DOMAIN kept : names[f[i]] = kept[i]
        /\ \A k \in DOMAIN names :
               (\E i \in DOMAIN kept : f[i] = k) <=> names[k] \in Range(TechniqueValues)

-----------------------------------------------------------------------------
(* TestSuite: add_test_case and to_dict *)

MaxCases == 3

\* the test cases handed to add_test_case: every polarity and priority, with a
\* generator's technique or one that has no generator
AddedCases ==
    { TestCase(FALSE, TRUE, "added", "", KeyNone, "", <<>>, tech, test_type, priority,
               TestData(EmptyDict, EmptyDict, EmptyDict, KeyNone), <<"2", "0", "0">>) :
        tech \in {"equivalence_partitioning", "boundary_value_analysis", "state_transition"},
        test_type \in {"positive", "negative"}, priority \in {"high", "medium", "low"} }

\* suite.add_test_case(test_case)
AddTestCase ==
    /\ Len(suite) < MaxCases
    /\ \E test_case \in AddedCases : suite' = Append(suite, test_case)
    /\ summary' = NoSummary
    /\ UNCHANGED <<generatorVars, valueVars, run>>

\* suite.to_dict()
ToDict ==
    /\ summary' = to_dict_summary(suite)
    /\ UNCHANGED <<generatorVars, valueVars, run, suite>>

\* TestSuite(name, description): no test cases
SuiteInit ==
    /\ analysis = <<>>
    /\ endpoint = 0
    /\ technique = "none"
    /\ counter = [t \in Techniques |-> 0]
    /\ outcome = "none"
    /\ cases = <<>>
    /\ calls = 0
    /\ created = [t \in Techniques |-> 0]
    /\ inflight = <<>>
    /\ description = NoDescription
    /\ produced = <<>>
    /\ run = NoRun
    /\ suite = <<>>
    /\ summary = NoSummary

SuiteSpec == SuiteInit /\ [][AddTestCase \/ ToDict]_vars

RECURSIVE SumOf(_)
\* the sum of the values of a tally
SumOf(tally) ==
    IF DOMAIN tally = {} THEN 0
    ELSE LET k == CHOOSE k \in DOMAIN tally : TRUE
         IN  tally[k] + SumOf([x \in DOMAIN tally \ {k} |-> tally[x]])

\* the number of cases of the suite for which a tag reads as given
Tagged(tag, value) == Cardinality({i \in DOMAIN suite : tag[i] = value})

\* C17: in every suite state reached by add_test_case calls, the summary to_dict
\* returns is derived from the current case list: total_test_cases is the
\* number of cases, the by_type, by_technique and by_priority values each sum to
\* that total, and each tally counts exactly the cases that carry its tag.
C17_SummaryDerived ==
    summary.returned =>
        /\ summary.total_test_cases = Len(suite)
        /\ summary.by_type["positive"] + summary.by_type["negative"] = Len(suite)
        /\ SumOf(summary.by_technique) = Len(suite)
        /\ SumOf(summary.by_priority) = Len(suite)
        /\ \A t \in DOMAIN summary.by_type :
               summary.by_type[t] = Tagged([i \in DOMAIN suite |-> suite[i].test_type], t)
        /\ \A t \in DOMAIN summary.by_technique :
               summary.by_technique[t] = Tagged([i \in DOMAIN suite |-> suite[i].technique], t)
        /\ \A p \in DOMAIN summary.by_priority :
               summary.by_priority[p] = Tagged([i \in DOMAIN suite |-> suite[i].priority], p)

\* the summary of a suite of three cases or more, among them both polarities,
\* two priorities and a technique without a generator
C17_Witness ==
    /\ summary.returned
    /\ Len(suite) >= 3
    /\ summary.by_type["positive"] > 0 /\ summary.by_type["negative"] > 0
    /\ "state_transition" \in DOMAIN summary.by_technique
    /\ Cardinality(DOMAIN summary.by_priority) >= 2

-----------------------------------------------------------------------------
\* C18: generation never aborts on response data: for every endpoint whose
\* responses mapping has string keys of any form (numeric codes, range keys such
\* as 2XX or 4XX, default, or no keys at all), each generator's generate()
\* returns its cases without raising, using 200 when no success response is
\* declared and 400 when no error response is declared. Stated for the
\* endpoints without a body, whose parameters carry no constraint at all.
C18_ResponsesNeverAbort ==
    outcome # "none" /\ Ep \in {EndpointView(h, NoBody, r) : h \in HeaderLists, r \in Responses} =>
        /\ outcome = "returned"
        /\ \A c \in CaseSet :
               /\ c.test_type = "positive" /\ FirstKeyIn(Ep, {"2"}) = <<>> => c.status_code = 200
               /\ c.test_type = "negative" /\ FirstKeyIn(Ep, {"4", "5"}) = <<>> => c.status_code = 400

-----------------------------------------------------------------------------
\* C19: a required body property whose length or numeric constraints are
\* absent, whether the key is missing from the property record or present with
\* a null value, is synthesized from the defaults (a string of length 25, an
\* integer 500), and generating the Equivalence Partitioning cases for an
\* endpoint with such a required body completes without raising. Stated for the
\* endpoints whose response keys are numeric codes.
C19_AbsentConstraintsDefaulted ==
    /\ outcome # "none" /\ technique = "equivalence_partitioning"
    /\ Ep \in HeaderEndpoints \cup PropertyEndpoints
    /\ Ep.request_body.required
    /\ \A i \in DOMAIN Ep.responses : "X" \notin Range(Ep.responses[i])
    => /\ outcome = "returned"
       /\ \A c \in CaseSet, q \in Range(Ep.request_body.properties) :
              c.kind = "all_valid" /\ IsRequiredProperty(Ep.request_body, q)
                  /\ q.example.st # "val" /\ q.format \notin StringFormats /\ q.enum = <<>> =>
                  /\ c.test_data.body.kind = "dict"
                  /\ q.name \in DOMAIN c.test_data.body.d
                  /\ (q.type = "string"
                          /\ {q.min_length.st, q.minLength.st, q.max_length.st, q.maxLength.st}
                                 \subseteq {"absent", "none"}) =>
                         c.test_data.body.d[q.name] = Val("str", 25, "random")
                  /\ (q.type = "integer" /\ {q.minimum.st, q.maximum.st} \subseteq {"absent", "none"}) =>
                         c.test_data.body.d[q.name] = Val("int", 500, "")

-----------------------------------------------------------------------------
\* C21: for an endpoint with no parameters and no request body, Equivalence
\* Partitioning yields exactly one case (the all-valid positive case), Boundary
\* Value Analysis yields zero cases and Decision Table yields zero cases, and
\* none of them raises.
C21_BareEndpoint ==
    outcome # "none" /\ Ep.parameters = <<>> /\ Ep.request_body = NoBody =>
        /\ outcome = "returned"
        /\ technique = "equivalence_partitioning" =>
               /\ Len(cases) = 1
               /\ cases[1].kind = "all_valid" /\ cases[1].test_type = "positive"
        /\ technique \in {"boundary_value_analysis", "decision_table"} => cases = <<>>

-----------------------------------------------------------------------------
\* the key sets of a request: headers, path parameters, query parameters, body
KeySets(td) ==
    [headers |-> DOMAIN td.headers, path_params |-> DOMAIN td.path_params,
     query_params |-> DOMAIN td.query_params,
     body |-> <<td.body.kind, DOMAIN td.body.d>>]

\* C22: in the Equivalence Partitioning missing-header case for required header
\* h, the key set of the headers is exactly the names of the endpoint's required
\* headers other than h, and the path parameters, required query parameters and
\* body are populated as in the all-valid case (same key sets).
C22_MissingHeaderCase ==
    Returned("equivalence_partitioning") =>
        \A c \in CaseSet :
            c.kind = "missing_param" =>
                /\ DOMAIN c.test_data.headers = RequiredHeaderNames(Ep) \ {c.subject}
                /\ c.subject \in RequiredHeaderNames(Ep)
                /\ KeySets(c.test_data) =
                       [KeySets(cases[1].test_data) EXCEPT !.headers = @ \ {c.subject}]
                /\ DOMAIN c.test_data.path_params = ValidNames(Ep, "path")
                /\ DOMAIN c.test_data.query_params = ValidNames(Ep, "query")

\* a missing-header case that still carries another header and a body, and one
\* that carries a path or query parameter
C22_Witness ==
    /\ Returned("equivalence_partitioning")
    /\ \E c \in CaseSet :
           /\ c.kind = "missing_param"
           /\ \/ DOMAIN c.test_data.headers # {} /\ c.test_data.body.kind = "dict"
                    /\ DOMAIN c.test_data.body.d # {}
              \/ DOMAIN c.test_data.path_params \cup DOMAIN c.test_data.query_params # {}

-----------------------------------------------------------------------------
\* the format a header declares: on its record, or else inside its schema
DeclaredFormat(p) == IF HasFormat(p) THEN p.format ELSE p.schema.format

\* the fixed malformed literal of a format
MalformedLiteral(format) ==
    CASE format = "uuid" -> "invalid-uuid-format"
      [] format = "email" -> "not-an-email"
      [] format = "date" -> "not-a-date"
      [] format = "date-time" -> "not-a-datetime"
      [] format = "uri" -> "not a uri"

\* C23: in the Equivalence Partitioning invalid-format case for a required
\* header h whose declared format is one of uuid, email, date, date-time, uri,
\* the value placed under h is the fixed malformed literal for that format,
\* whether the format is declared on the parameter record or inside its schema;
\* every other required header holds a valid value.
C23_MalformedLiteral ==
    Returned("equivalence_partitioning") =>
        \A c \in CaseSet, h \in Range(RequiredHeadersOf(Ep)) :
            (c.kind = "invalid_format" /\ c.subject = h.name
                 /\ DeclaredFormat(h) \in {"uuid", "email", "date", "date-time", "uri"}) =>
                /\ DOMAIN c.test_data.headers = RequiredHeaderNames(Ep)
                /\ c.test_data.headers[h.name] = Val("lit", 0, MalformedLiteral(DeclaredFormat(h)))
                /\ \A other \in RequiredHeaderNames(Ep) \ {h.name} :
                       c.test_data.headers[other] = cases[1].test_data.headers[other]

-----------------------------------------------------------------------------
\* C24: for every schema with a non-empty enum and no example,
\* generate_valid_value returns a member of the declared enum, for every
\* declared type (string, integer, number) and whether or not a format is also
\* declared.
C24_EnumMember ==
    \A i \in DOMAIN produced :
        LET param == description.param
        IN  (/\ produced[i].op = "valid" /\ description.kind = "param"
             /\ param.schema.enum # <<>>
             /\ Get2(param.schema.example, param.example).st # "val"
             /\ GetStr(param.schema.type, param.type, "string") \in {"string", "integer", "number"}) =>
                produced[i].v \in Range(param.schema.enum)

-----------------------------------------------------------------------------
\* C25: for every enum-constrained schema, generate_boundary_values returns an
\* empty list and Boundary Value Analysis creates no boundary case for that
\* parameter or property, even when length or numeric bounds are declared
\* alongside the enum.
C25_NoEnumBoundaries ==
    Returned("boundary_value_analysis") =>
        /\ \A p \in Range(Ep.parameters) :
               p.schema.enum # <<>> => generate_boundary_values(p) = <<>>
        /\ \A c \in CaseSet :
               c.kind \in {"param_boundary", "property_length", "property_numeric"} =>
                   SubjectOf(Ep, c).enum = <<>>

-----------------------------------------------------------------------------
IsArrayCase(c) == c.kind = "param_boundary" /\ c.value.k = "arr"

\* C26: for every array parameter declaring minItems and/or maxItems, a Boundary
\* Value Analysis case whose array has fewer items than minItems or more than
\* maxItems is tagged negative and expects the error code, and a case whose item
\* count lies within the declared bounds is tagged positive.
C26_ArrayPolarity ==
    Returned("boundary_value_analysis") =>
        \A c \in CaseSet :
            (IsArrayCase(c) /\ ~c.raised) =>
                LET d == SubjectOf(Ep, c)
                IN  IF Within(c.value.n, d.minItems, d.maxItems)
                    THEN c.test_type = "positive"
                    ELSE c.test_type = "negative" /\ c.expected_status = DeclaredError(Ep)

-----------------------------------------------------------------------------
\* a string or integer parameter without example, format or enum whose bounds,
\* where declared, are numbers
PlainBounded(param) ==
    LET schema == param.schema
    IN  /\ GetStr(schema.type, param.type, "string") \in {"string", "integer"}
        /\ Get2(schema.example, param.example).st # "val"
        /\ GetStr(schema.format, param.format, "None") = "None"
        /\ schema.enum = <<>>
        /\ schema.min_length.st = "absent" /\ schema.max_length.st = "absent"
        /\ \A key \in {schema.minLength, schema.maxLength, schema.minimum, schema.maximum} :
               key.st # "none"

\* C27: the value generate_valid_value synthesizes for a string or integer
\* parameter (no example, format or enum) passes the validity check of the
\* Boundary Value generator against the declared bounds, also when only one of
\* the two bounds is declared and the other takes its default.
C27_ValidValueWithinBounds ==
    \A i \in DOMAIN produced :
        (produced[i].op = "valid" /\ description.kind = "param"
                                  /\ PlainBounded(description.param)) =>
            /\ produced[i].v.k \in {"str", "int"}
            /\ is_valid_boundary_value(description.param, produced[i].v) = Verdict(FALSE, TRUE)

-----------------------------------------------------------------------------
\* the names of the properties of the body schema that its required list names
\* or that carry required = true
RequiredPropertyNames(body) ==
    {q.name : q \in {q \in Range(body.properties) :
                         q.name \in body.requiredNames \/ q.required}}

\* the cases whose body is the synthesized valid object of the body schema
WithValidObject ==
    {c \in CaseSet : /\ c.kind \in {"all_valid", "missing_param", "invalid_format"}
                     /\ c.test_data.body.kind = "dict"}

\* C28: the key set of the synthesized valid object is exactly the set of names
\* of the properties that the schema's required list names or that carry
\* required = true; no non-required property appears in it.
C28_RequiredKeysOnly ==
    Returned("equivalence_partitioning") =>
        \A c \in WithValidObject :
            DOMAIN c.test_data.body.d = RequiredPropertyNames(Ep.request_body)

C28_Witness ==
    /\ Returned("equivalence_partitioning")
    /\ \E c \in WithValidObject :
           /\ DOMAIN c.test_data.body.d # {}
           /\ \E q \in Range(Ep.request_body.properties) : q.name \notin DOMAIN c.test_data.body.d
    /\ \E c \in WithValidObject :
           \E q \in Range(Ep.request_body.properties) :
               /\ q.required /\ q.name \notin Ep.request_body.requiredNames
               /\ q.name \in DOMAIN c.test_data.body.d

-----------------------------------------------------------------------------
\* what a generate() call of the generator tech may change: its own counter
FrameOfGenerate(tech) ==
    /\ analysis' = analysis /\ inflight' = inflight
    /\ \A t \in Techniques \ {tech} : counter'[t] = counter[t] /\ created'[t] = created[t]
    /\ counter'[tech] >= counter[tech]
    /\ <<description, produced, run, suite, summary>>' = <<description, produced, run, suite, summary>>

-----------------------------------------------------------------------------
(* Two generate_test_cases calls in progress at once on the module-level tool:
   both run generate() of the same EquivalencePartitioningGenerator instance *)

\* self._test_counter += 1, its first half: the attribute is read
LoadCounter ==
    \E t \in DOMAIN inflight :
    LET attempts == ep_generate(analysis[endpoint], 0)
        me == inflight[t]
    IN  /\ me.pc = "load"
        /\ inflight' = [inflight EXCEPT ![t] =
               IF attempts[me.at].raised /\ ~attempts[me.at].counted
               THEN [me EXCEPT !.pc = "raised"]
               ELSE [me EXCEPT !.pc = "store", !.tmp = counter[technique]]]
        /\ UNCHANGED <<analysis, endpoint, technique, counter, outcome, cases, calls, created, valueVars, suiteVars>>

\* its second half: the sum is written back
StoreCounter ==
    \E t \in DOMAIN inflight :
    /\ inflight[t].pc = "store"
    /\ counter' = [counter EXCEPT ![technique] = inflight[t].tmp + 1]
    /\ inflight' = [inflight EXCEPT ![t].pc = "format"]
    /\ UNCHANGED <<analysis, endpoint, technique, outcome, cases, calls, created, valueVars, suiteVars>>

\* the rest of the method: the test data is built and id=f"EP-{self._test_counter:03d}"
\* reads the attribute again
FormatId ==
    \E t \in DOMAIN inflight :
    LET attempts == ep_generate(analysis[endpoint], 0)
        me == inflight[t]
    IN  /\ me.pc = "format"
        /\ IF attempts[me.at].raised
           THEN /\ inflight' = [inflight EXCEPT ![t].pc = "raised"]
                /\ UNCHANGED created
           ELSE /\ inflight' = [inflight EXCEPT ![t] =
                       [pc |-> IF me.at = Len(attempts) THEN "returned" ELSE "load",
                        at |-> me.at + 1, tmp |-> me.tmp,
                        ids |-> Append(me.ids, Prefix(technique) \o Format03d(counter[technique]))]]
                /\ created' = [created EXCEPT ![technique] = @ + 1]
        /\ UNCHANGED <<analysis, endpoint, technique, counter, outcome, cases, calls, valueVars, suiteVars>>

RaceInit ==
    /\ analysis \in { <<e>> : e \in PairedViews }
    /\ endpoint = 1
    /\ technique = "equivalence_partitioning"
    /\ counter = [t \in Techniques |-> 0]
    /\ outcome = "none"
    /\ cases = <<>>
    /\ calls = 0
    /\ created = [t \in Techniques |-> 0]
    /\ inflight = [t \in {1, 2} |-> [pc |-> "load", at |-> 1, tmp |-> 0, ids |-> <<>>]]
    /\ description = NoDescription
    /\ produced = <<>>
    /\ run = NoRun
    /\ suite = <<>>
    /\ summary = NoSummary

RaceSpec == RaceInit /\ [][LoadCounter \/ StoreCounter \/ FormatId]_vars

\* C29: every id issued by one generator instance is distinct from every other
\* id that instance issues, under any interleaving of two generate_test_cases
\* calls in progress at the same time on the module-level tool object.
C29_DistinctIds ==
    \A t \in DOMAIN inflight, u \in DOMAIN inflight :
        \A i \in DOMAIN inflight[t].ids, j \in DOMAIN inflight[u].ids :
            (t # u \/ i # j) => inflight[t].ids[i] # inflight[u].ids[j]

====
